---- MODULE Spec2Model ----
(***************************************************************************)
(* The in-memory ledger backend of Birthmark (MockBlockchain in            *)
(* src/src/Birthmark/blockchain.py): the fingerprint -> record map, the    *)
(* transaction counter and the block counter, with record_hash,            *)
(* verify_hash, batch_record_hashes and get_stats.                         *)
(***************************************************************************)
EXTENDS Integers, Sequences, FiniteSets, TLC

VARIABLES
    records,              \* self._records: dict image_hash -> BirthmarkRecord
    transaction_counter,  \* self._transaction_counter
    block_counter,        \* self._block_counter
    network,              \* self.network
    simulate_delay,       \* self.simulate_delay
    last,                 \* the last completed call: operation, arguments, outcome
    issued,               \* the transaction ids returned so far, in order of return
    submitted,            \* the fingerprints passed to record_hash so far (through a
                          \* convenience function: by the calls that returned)
    thread,               \* per caller thread: position in its call and its locals
    interface,            \* per caller variable: the address of the backend object
                          \* get_blockchain_interface returned into it, "" while unset
    heap,                 \* per address: the backend object that lives there, or None
    web3_installed        \* whether "from web3 import Web3" succeeds in this environment

objVars == <<records, transaction_counter, block_counter, network, simulate_delay>>
moduleVars == <<interface, heap, web3_installed>>
vars == <<records, transaction_counter, block_counter, network, simulate_delay,
          last, issued, submitted, thread, interface, heap, web3_installed>>

----------------------------------------------------------------------------
(* Bounds of the model *)

\* calls are taken while the transaction counter is below MaxTx
MaxTx == 25
\* longest list handed to batch_record_hashes
MaxBatch == 2

(* Program constants *)

InitialBlock == 1000
BlockInterval == 10
TxIdWidth == 8
RecordDelayMs == 100
VerifyDelayMs == 50
BatchDelayMs == 200

----------------------------------------------------------------------------
(* Values *)

\* Python's None; an omitted optional argument takes it as its default
None == <<>>

\* datetime values, as the fields isoformat() renders
Datetime(y, mo, d, h, mi, s, us) ==
    [year |-> y, month |-> mo, day |-> d, hour |-> h, minute |-> mi,
     second |-> s, microsecond |-> us]

T1 == Datetime(2024, 1, 15, 9, 5, 0, 0)
T2 == Datetime(2024, 11, 3, 17, 30, 42, 1500)

\* a str passed where a datetime is expected: it has no isoformat()
BadTimestamp == [text |-> "2024-01-15"]

\* (45.5231, -122.6765) in units of 1e-4 degree
Portland == <<455231, -1226765>>

\* the fingerprints looked up
Hashes == {"abc123", "zzz999", "nonexistent_hash"}

\* the (image_hash, timestamp, camera_id, geolocation) tuples submitted
Submissions == {<<"abc123", T1, "camera_001", None>>,
                <<"zzz999", T2, "camera_002", Portland>>,
                <<"abc123", T2, "camera_002", Portland>>}

\* MockBlockchain() and MockBlockchain(network="test-network", simulate_delay=False)
Constructions == {<<"mock-testnet", TRUE>>, <<"test-network", FALSE>>}

Threads == {"t1", "t2"}

\* "{n:0<width>d}": at least width digits, zero filled on the left
ZeroPad(s, width) ==
    IF Len(s) >= width THEN s ELSE SubSeq("00000000", 1, width - Len(s)) \o s

\* datetime.isoformat() of a naive datetime
IsoFormat(t) ==
    ZeroPad(ToString(t.year), 4) \o "-" \o ZeroPad(ToString(t.month), 2) \o "-"
    \o ZeroPad(ToString(t.day), 2) \o "T" \o ZeroPad(ToString(t.hour), 2) \o ":"
    \o ZeroPad(ToString(t.minute), 2) \o ":" \o ZeroPad(ToString(t.second), 2)
    \o (IF t.microsecond = 0 THEN "" ELSE "." \o ZeroPad(ToString(t.microsecond), 6))

\* f"mock_tx_{counter:08d}"
TxId(counter) == "mock_tx_" \o ZeroPad(ToString(counter), TxIdWidth)

\* the constructor called without geolocation=geolocation: the field keeps its default
BirthmarkRecordNoGeo(hash, timestamp, camera_id, geolocation, tx_id, block, net) ==
    [hash |-> hash, timestamp |-> timestamp, camera_id |-> camera_id,
     geolocation |-> None, transaction_id |-> tx_id,
     block_number |-> block, network |-> net]

\* the constructor called without block_number=...: the field keeps its default
BirthmarkRecordNoBlock(hash, timestamp, camera_id, geolocation, tx_id, block, net) ==
    [hash |-> hash, timestamp |-> timestamp, camera_id |-> camera_id,
     geolocation |-> geolocation, transaction_id |-> tx_id,
     block_number |-> None, network |-> net]

\* the dataclass constructor
BirthmarkRecord(hash, timestamp, camera_id, geolocation, tx_id, block, net) ==
    [hash |-> hash, timestamp |-> timestamp, camera_id |-> camera_id,
     geolocation |-> geolocation, transaction_id |-> tx_id,
     block_number |-> block, network |-> net]

\* d.setdefault(k, v): an existing entry is kept
DictSetDefault(d, k, v) == [x \in (DOMAIN d) \cup {k} |-> IF x \in DOMAIN d THEN d[x] ELSE v]

\* d[k] = v, after which the entries stored without a geolocation are given v's
DictSetBackfill(d, k, v) ==
    [x \in (DOMAIN d) \cup {k} |->
        IF x = k THEN v
        ELSE IF d[x].geolocation = None THEN [d[x] EXCEPT !.geolocation = v.geolocation]
        ELSE d[x]]

\* d.clear(); d[k] = v: only the newest entry is kept
DictSetEvict(d, k, v) == [x \in {k} |-> v]

\* d[v.camera_id] = v: the entry is keyed by the submitter
DictSetUnderCameraId(d, k, v) ==
    [x \in (DOMAIN d) \cup {v.camera_id} |-> IF x = v.camera_id THEN v ELSE d[x]]

\* d[k] = v on a dict
DictSet(d, k, v) == [x \in (DOMAIN d) \cup {k} |-> IF x = k THEN v ELSE d[x]]

\* d.get(k)
DictGet(d, k) == IF k \in DOMAIN d THEN d[k] ELSE None

----------------------------------------------------------------------------
(* The backend object and its methods, as functions of the object *)

Self == [records |-> records, transaction_counter |-> transaction_counter,
         block_counter |-> block_counter, network |-> network,
         simulate_delay |-> simulate_delay]

\* MockBlockchain.__init__
MockBlockchainInit(net, delay) ==
    [records |-> <<>>, transaction_counter |-> 0, block_counter |-> InitialBlock,
     network |-> net, simulate_delay |-> delay]

\* outcome of a call: the object afterwards, what was returned or raised, time slept
Outcome(self, raised, ret, slept) ==
    [self |-> self, raised |-> raised, ret |-> ret, slept |-> slept]

\* a timestamp argument that is a datetime (has isoformat)
IsDatetime(t) == "year" \in DOMAIN t

\* self._transaction_counter += 1; tx_id = f"mock_tx_{self._transaction_counter:08d}",
\* but with the id formatted from the counter as it was before the increment
AssignTransactionIdStale(self) ==
    [self |-> [self EXCEPT !.transaction_counter = @ + 1],
     tx_id |-> TxId(self.transaction_counter)]

\* self._transaction_counter += 1; tx_id = f"mock_tx_{self._transaction_counter:08d}"
AssignTransactionId(self) ==
    LET s1 == [self EXCEPT !.transaction_counter = @ + 1]
    IN  [self |-> s1, tx_id |-> TxId(s1.transaction_counter)]

\* the block confirmation, but taken only when the counter equals the interval
ConfirmBlockOnce(self) ==
    IF self.transaction_counter = BlockInterval
    THEN [self EXCEPT !.block_counter = @ + 1]
    ELSE self

\* the block confirmation, with the block counter put back to its base when it
\* has already advanced
ConfirmBlockReset(self) ==
    IF self.transaction_counter % BlockInterval = 0
    THEN [self EXCEPT !.block_counter = IF @ > InitialBlock THEN InitialBlock ELSE @ + 1]
    ELSE self

\* if self._transaction_counter % 10 == 0: self._block_counter += 1
ConfirmBlock(self) ==
    IF self.transaction_counter % BlockInterval = 0
    THEN [self EXCEPT !.block_counter = @ + 1]
    ELSE self

\* record_hash refusing a fingerprint that is already stored
RecordHashRejectStored(self, image_hash, timestamp, camera_id, geolocation) ==
    LET slept == IF self.simulate_delay THEN RecordDelayMs ELSE 0
        a == AssignTransactionId(self)
        s1 == a.self
        tx_id == a.tx_id
    IN  IF ~IsDatetime(timestamp)
        THEN Outcome(s1, "AttributeError", None, slept)
        ELSE IF image_hash \in DOMAIN self.records
        THEN Outcome(self, "ValueError", None, slept)
        ELSE
        LET record == BirthmarkRecord(image_hash, IsoFormat(timestamp), camera_id,
                                      geolocation, tx_id, s1.block_counter, s1.network)
            s2 == [s1 EXCEPT !.records = DictSet(@, image_hash, record)]
        IN  Outcome(ConfirmBlock(s2), "", tx_id, slept)

\* record_hash with the block confirmation placed before the record is built: the
\* record of every tenth submission carries the new block number
RecordHashBlockAfter(self, image_hash, timestamp, camera_id, geolocation) ==
    LET slept == IF self.simulate_delay THEN RecordDelayMs ELSE 0
        a == AssignTransactionId(self)
        s1 == ConfirmBlock(a.self)
        tx_id == a.tx_id
    IN  IF ~IsDatetime(timestamp)
        THEN Outcome(s1, "AttributeError", None, slept)
        ELSE
        LET record == BirthmarkRecord(image_hash, IsoFormat(timestamp), camera_id,
                                      geolocation, tx_id, s1.block_counter, s1.network)
            s2 == [s1 EXCEPT !.records = DictSet(@, image_hash, record)]
        IN  Outcome(s2, "", tx_id, slept)

RecordHash(self, image_hash, timestamp, camera_id, geolocation) ==
    LET slept == IF self.simulate_delay THEN RecordDelayMs ELSE 0
        a == AssignTransactionId(self)
        s1 == a.self
        tx_id == a.tx_id
    IN  IF ~IsDatetime(timestamp)
        THEN Outcome(s1, "AttributeError", None, slept)
        ELSE
        LET record == BirthmarkRecord(image_hash, IsoFormat(timestamp), camera_id,
                                      geolocation, tx_id, s1.block_counter, s1.network)
            s2 == [s1 EXCEPT !.records = DictSet(@, image_hash, record)]
        IN  Outcome(ConfirmBlock(s2), "", tx_id, slept)

\* the lookup written as self._records[image_hash]: an absent key raises
VerifyHashSubscript(self, image_hash) ==
    LET slept == IF self.simulate_delay THEN VerifyDelayMs ELSE 0
    IN  IF image_hash \in DOMAIN self.records
        THEN Outcome(self, "", self.records[image_hash], slept)
        ELSE Outcome(self, "KeyError", None, slept)

\* verify_hash counted as a transaction
VerifyHashCounting(self, image_hash) ==
    LET slept == IF self.simulate_delay THEN VerifyDelayMs ELSE 0
    IN  Outcome(ConfirmBlock([self EXCEPT !.transaction_counter = @ + 1]), "",
                DictGet(self.records, image_hash), slept)

\* verify_hash giving up when the simulated delay is on: the lookup is not made
VerifyHashDelayedMiss(self, image_hash) ==
    IF self.simulate_delay
    THEN Outcome(self, "", None, VerifyDelayMs)
    ELSE Outcome(self, "", DictGet(self.records, image_hash), 0)

VerifyHash(self, image_hash) ==
    LET slept == IF self.simulate_delay THEN VerifyDelayMs ELSE 0
    IN  Outcome(self, "", DictGet(self.records, image_hash), slept)

RECURSIVE BatchLoop(_, _, _, _, _)
\* the for loop of batch_record_hashes from entry i on
BatchLoop(self, recs, i, tx_ids, slept) ==
    IF i > Len(recs)
    THEN Outcome(self, "", tx_ids, slept)
    ELSE LET r == RecordHash(self, recs[i][1], recs[i][2], recs[i][3], recs[i][4])
         IN  IF r.raised # ""
             THEN Outcome(r.self, r.raised, None, slept + r.slept)
             ELSE BatchLoop(r.self, recs, i + 1, Append(tx_ids, r.ret), slept + r.slept)

\* the loop written over records[1:]: the first entry is never submitted
BatchRecordHashesSkipFirst(self, recs) ==
    BatchLoop(self, recs, 2, <<>>, IF self.simulate_delay THEN BatchDelayMs ELSE 0)

\* the loop written over reversed(records)
BatchRecordHashesReversed(self, recs) ==
    BatchLoop(self, [k \in 1..Len(recs) |-> recs[Len(recs) + 1 - k]], 1, <<>>,
              IF self.simulate_delay THEN BatchDelayMs ELSE 0)

\* batch_record_hashes with the batch itself counted as a transaction
BatchRecordHashesCounted(self, recs) ==
    BatchLoop([self EXCEPT !.transaction_counter = @ + 1], recs, 1, <<>>,
              IF self.simulate_delay THEN BatchDelayMs ELSE 0)

RECURSIVE FirstOccurrences(_, _)
\* recs without the entries whose fingerprint is in seen or occurs earlier in recs
FirstOccurrences(recs, seen) ==
    IF recs = <<>> THEN <<>>
    ELSE IF Head(recs)[1] \in seen THEN FirstOccurrences(Tail(recs), seen)
    ELSE <<Head(recs)>> \o FirstOccurrences(Tail(recs), seen \cup {Head(recs)[1]})

\* batch_record_hashes submitting each fingerprint of the batch once
BatchRecordHashesOncePerHash(self, recs) ==
    BatchLoop(self, FirstOccurrences(recs, {}), 1, <<>>,
              IF self.simulate_delay THEN BatchDelayMs ELSE 0)

BatchRecordHashes(self, recs) ==
    BatchLoop(self, recs, 1, <<>>, IF self.simulate_delay THEN BatchDelayMs ELSE 0)

\* get_stats with the two counts exchanged
GetStatsExchanged(self) ==
    Outcome(self, "",
            [total_records |-> self.transaction_counter,
             current_block |-> self.block_counter,
             total_transactions |-> Cardinality(DOMAIN self.records),
             network |-> self.network],
            0)

GetStats(self) ==
    Outcome(self, "",
            [total_records |-> Cardinality(DOMAIN self.records),
             current_block |-> self.block_counter,
             total_transactions |-> self.transaction_counter,
             network |-> self.network],
            0)

----------------------------------------------------------------------------
(* One caller using one backend: every call runs to completion *)

\* the tuples batches are built from
BatchTuples == {<<"abc123", T1, "camera_001", None>>,
                <<"zzz999", T2, "camera_002", Portland>>}

RECURSIVE SeqsUpTo(_, _)
\* the sequences over S of length at most n
SeqsUpTo(S, n) ==
    IF n = 0 THEN {<<>>}
    ELSE LET shorter == SeqsUpTo(S, n - 1)
         IN  shorter \cup {Append(q, x) : q \in shorter, x \in S}

Batches == SeqsUpTo(BatchTuples, MaxBatch)

Call(op, args, r) ==
    [op |-> op, args |-> args, raised |-> r.raised, ret |-> r.ret, slept |-> r.slept,
     pre_block |-> block_counter, pre_counter |-> transaction_counter]

NoCall ==
    [op |-> "init", args |-> <<>>, raised |-> "", ret |-> None, slept |-> 0,
     pre_block |-> InitialBlock, pre_counter |-> 0]

Install(self) ==
    /\ records' = self.records
    /\ transaction_counter' = self.transaction_counter
    /\ block_counter' = self.block_counter
    /\ network' = self.network
    /\ simulate_delay' = self.simulate_delay

\* the backend object is self
Holds(self) ==
    /\ records = self.records
    /\ transaction_counter = self.transaction_counter
    /\ block_counter = self.block_counter
    /\ network = self.network
    /\ simulate_delay = self.simulate_delay

\* a thread that is in no call
Idle ==
    [pc |-> "idle", op |-> "", caller |-> "", recs |-> <<>>, i |-> 0, tx_ids |-> <<>>,
     args |-> <<>>, tmp |-> 0, tx_id |-> "", record |-> None, raised |-> "",
     ret |-> None, pre_counter |-> 0]

\* the caller's variables that can hold a backend obtained from the factory
Handles == {"blockchain", "other"}

\* the backend was constructed directly: nothing came from the factory, and the
\* optional web3 package plays no part
NoInterface ==
    /\ interface = [h \in Handles |-> ""]
    /\ heap = [a \in Handles |-> None]
    /\ web3_installed = FALSE

Init ==
    /\ \E c \in Constructions : Holds(MockBlockchainInit(c[1], c[2]))
    /\ last = NoCall
    /\ issued = <<>>
    /\ submitted = {}
    /\ thread = [t \in Threads |-> Idle]
    /\ NoInterface

\* r names the outcome of the call; the object, the observation and the history
\* are updated from it
DoRecordHash ==
    \E sub \in Submissions :
        /\ transaction_counter < MaxTx
        /\ \E r \in {RecordHash(Self, sub[1], sub[2], sub[3], sub[4])} :
               /\ Install(r.self)
               /\ last' = Call("record_hash", sub, r)
               /\ issued' = IF r.raised = "" THEN Append(issued, r.ret) ELSE issued
               /\ submitted' = submitted \cup {sub[1]}
        /\ UNCHANGED moduleVars
        /\ UNCHANGED thread

DoVerifyHash ==
    \E f \in Hashes :
        /\ \E r \in {VerifyHash(Self, f)} :
               /\ Install(r.self)
               /\ last' = Call("verify_hash", <<f>>, r)
        /\ UNCHANGED moduleVars
        /\ UNCHANGED <<issued, submitted, thread>>

DoBatchRecordHashes ==
    \E recs \in Batches :
        /\ transaction_counter + Len(recs) <= MaxTx
        /\ \E r \in {BatchRecordHashes(Self, recs)} :
               /\ Install(r.self)
               /\ last' = Call("batch_record_hashes", recs, r)
               /\ issued' = IF r.raised = "" THEN issued \o r.ret ELSE issued
               /\ submitted' = submitted \cup {recs[i][1] : i \in 1..Len(recs)}
        /\ UNCHANGED moduleVars
        /\ UNCHANGED thread

DoGetStats ==
    /\ \E r \in {GetStats(Self)} :
           /\ Install(r.self)
           /\ last' = Call("get_stats", <<>>, r)
    /\ UNCHANGED moduleVars
    /\ UNCHANGED <<issued, submitted, thread>>

Next == DoRecordHash \/ DoVerifyHash \/ DoBatchRecordHashes \/ DoGetStats

Spec == Init /\ [][Next]_vars

----------------------------------------------------------------------------
(* Callers as threads: record_hash and batch_record_hashes statement by        *)
(* statement, each read and each write of the object's fields a step of its   *)
(* own.  The methods take no lock, so the steps of two threads interleave.    *)

Goto(t, pc) == thread' = [thread EXCEPT ![t].pc = pc]

\* a caller enters record_hash(image_hash, timestamp, camera_id, geolocation)
CallRecordHash(t, sub) ==
    /\ thread[t].pc = "idle"
    /\ thread' = [thread EXCEPT ![t] = [Idle EXCEPT !.pc = "rh_load", !.op = "record_hash",
                                                    !.caller = "top", !.args = sub,
                                                    !.pre_counter = transaction_counter]]
    /\ submitted' = submitted \cup {sub[1]}
    /\ UNCHANGED moduleVars
    /\ UNCHANGED <<objVars, last, issued>>

\* a caller enters batch_record_hashes(records): tx_ids = []
CallBatchRecordHashes(t, recs) ==
    /\ thread[t].pc = "idle"
    /\ thread' = [thread EXCEPT ![t] = [Idle EXCEPT !.pc = "b_next",
                                                    !.op = "batch_record_hashes",
                                                    !.recs = recs, !.i = 1,
                                                    !.pre_counter = transaction_counter]]
    /\ UNCHANGED moduleVars
    /\ UNCHANGED <<objVars, last, issued, submitted>>

\* for image_hash, timestamp, camera_id, geolocation in records: the next entry
\* is handed to record_hash, or the loop ends and tx_ids is returned
BatchNext(t) ==
    /\ thread[t].pc = "b_next"
    /\ IF thread[t].i > Len(thread[t].recs)
       THEN /\ thread' = [thread EXCEPT ![t].pc = "done", ![t].ret = thread[t].tx_ids]
            /\ UNCHANGED submitted
       ELSE /\ thread' = [thread EXCEPT ![t].pc = "rh_load", ![t].caller = "batch",
                                        ![t].args = thread[t].recs[thread[t].i],
                                        ![t].tmp = 0, ![t].tx_id = "",
                                        ![t].record = None]
            /\ submitted' = submitted \cup {thread[t].recs[thread[t].i][1]}
    /\ UNCHANGED moduleVars
    /\ UNCHANGED <<objVars, last, issued>>

\* self._transaction_counter += 1: the read
LoadCounter(t) ==
    /\ thread[t].pc = "rh_load"
    /\ thread' = [thread EXCEPT ![t].pc = "rh_store", ![t].tmp = transaction_counter]
    /\ UNCHANGED moduleVars
    /\ UNCHANGED <<objVars, last, issued, submitted>>

\* self._transaction_counter += 1: the write
StoreCounter(t) ==
    /\ thread[t].pc = "rh_store"
    /\ transaction_counter' = thread[t].tmp + 1
    /\ Goto(t, "rh_tx_id")
    /\ UNCHANGED moduleVars
    /\ UNCHANGED <<records, block_counter, network, simulate_delay, last, issued, submitted>>

\* tx_id = f"mock_tx_{self._transaction_counter:08d}"
FormatTxId(t) ==
    /\ thread[t].pc = "rh_tx_id"
    /\ thread' = [thread EXCEPT ![t].pc = "rh_record",
                                ![t].tx_id = TxId(transaction_counter)]
    /\ UNCHANGED moduleVars
    /\ UNCHANGED <<objVars, last, issued, submitted>>

\* the entries of a batch before entry i
Before(i) == 1..(i - 1)

\* record = BirthmarkRecord(...), in a batch that undoes its earlier entries when
\* one fails: their records are removed and the counter is put back
BuildRecordUndo(t) ==
    /\ thread[t].pc = "rh_record"
    /\ IF ~IsDatetime(thread[t].args[2])
       THEN /\ thread' = [thread EXCEPT ![t].pc = "done", ![t].raised = "AttributeError"]
            /\ records' = [f \in DOMAIN records \
                                  {thread[t].recs[k][1] : k \in Before(thread[t].i)}
                              |-> records[f]]
            /\ transaction_counter' = thread[t].pre_counter
       ELSE /\ thread' = [thread EXCEPT
                   ![t].pc = "rh_put",
                   ![t].record = BirthmarkRecord(thread[t].args[1],
                                                 IsoFormat(thread[t].args[2]),
                                                 thread[t].args[3], thread[t].args[4],
                                                 thread[t].tx_id, block_counter, network)]
            /\ UNCHANGED <<records, transaction_counter>>
    /\ UNCHANGED moduleVars
    /\ UNCHANGED <<block_counter, network, simulate_delay, last, issued, submitted>>

\* record = BirthmarkRecord(...), in a batch loop that catches the failure of an
\* entry and goes on with the next one
BuildRecordSkip(t) ==
    /\ thread[t].pc = "rh_record"
    /\ IF ~IsDatetime(thread[t].args[2])
       THEN thread' = [thread EXCEPT ![t].pc = "b_next", ![t].i = @ + 1]
       ELSE thread' = [thread EXCEPT
                ![t].pc = "rh_put",
                ![t].record = BirthmarkRecord(thread[t].args[1],
                                              IsoFormat(thread[t].args[2]),
                                              thread[t].args[3], thread[t].args[4],
                                              thread[t].tx_id, block_counter, network)]
    /\ UNCHANGED moduleVars
    /\ UNCHANGED <<objVars, last, issued, submitted>>

\* record = BirthmarkRecord(...): timestamp.isoformat() raises for a timestamp
\* that is no datetime, and the exception leaves record_hash and the batch loop
BuildRecord(t) ==
    /\ thread[t].pc = "rh_record"
    /\ IF ~IsDatetime(thread[t].args[2])
       THEN thread' = [thread EXCEPT ![t].pc = "done", ![t].raised = "AttributeError"]
       ELSE thread' = [thread EXCEPT
                ![t].pc = "rh_put",
                ![t].record = BirthmarkRecord(thread[t].args[1],
                                              IsoFormat(thread[t].args[2]),
                                              thread[t].args[3], thread[t].args[4],
                                              thread[t].tx_id, block_counter, network)]
    /\ UNCHANGED moduleVars
    /\ UNCHANGED <<objVars, last, issued, submitted>>

\* the record put into the map before its block number is set
PutRecordUnconfirmed(t) ==
    /\ thread[t].pc = "rh_put"
    /\ records' = DictSet(records, thread[t].args[1],
                          [thread[t].record EXCEPT !.block_number = None])
    /\ Goto(t, "rh_check")
    /\ UNCHANGED moduleVars
    /\ UNCHANGED <<transaction_counter, block_counter, network, simulate_delay,
                   last, issued, submitted>>

\* self._records[image_hash] = record
PutRecord(t) ==
    /\ thread[t].pc = "rh_put"
    /\ records' = DictSet(records, thread[t].args[1], thread[t].record)
    /\ Goto(t, "rh_check")
    /\ UNCHANGED moduleVars
    /\ UNCHANGED <<transaction_counter, block_counter, network, simulate_delay,
                   last, issued, submitted>>

\* if self._transaction_counter % 10 == 0
CheckBlock(t) ==
    /\ thread[t].pc = "rh_check"
    /\ Goto(t, IF transaction_counter % BlockInterval = 0 THEN "rh_blk_load"
                                                          ELSE "rh_return")
    /\ UNCHANGED moduleVars
    /\ UNCHANGED <<objVars, last, issued, submitted>>

\* self._block_counter += 1: the read
LoadBlock(t) ==
    /\ thread[t].pc = "rh_blk_load"
    /\ thread' = [thread EXCEPT ![t].pc = "rh_blk_store", ![t].tmp = block_counter]
    /\ UNCHANGED moduleVars
    /\ UNCHANGED <<objVars, last, issued, submitted>>

\* self._block_counter += 1: the write
StoreBlock(t) ==
    /\ thread[t].pc = "rh_blk_store"
    /\ block_counter' = thread[t].tmp + 1
    /\ Goto(t, "rh_return")
    /\ UNCHANGED moduleVars
    /\ UNCHANGED <<records, transaction_counter, network, simulate_delay,
                   last, issued, submitted>>

\* return tx_id: to the caller, or to the batch loop, which appends it to tx_ids
ReturnTxId(t) ==
    /\ thread[t].pc = "rh_return"
    /\ IF thread[t].caller = "batch"
       THEN thread' = [thread EXCEPT ![t].pc = "b_next", ![t].i = @ + 1,
                                    ![t].tx_ids = Append(@, thread[t].tx_id)]
       ELSE thread' = [thread EXCEPT ![t].pc = "done", ![t].ret = thread[t].tx_id]
    /\ issued' = Append(issued, thread[t].tx_id)
    /\ UNCHANGED moduleVars
    /\ UNCHANGED <<objVars, last, submitted>>

\* the caller is interrupted inside its call (KeyboardInterrupt): the call ends
\* where it stands and nothing is undone
Interrupt(t) ==
    /\ thread[t].pc \notin {"idle", "done"}
    /\ thread' = [thread EXCEPT ![t].pc = "done", ![t].raised = "KeyboardInterrupt"]
    /\ UNCHANGED moduleVars
    /\ UNCHANGED <<objVars, last, issued, submitted>>

RECURSIVE Repeat(_, _, _)
\* the backend after n more calls record_hash(*sub) by one caller
Repeat(self, sub, n) ==
    IF n = 0 THEN self
    ELSE Repeat(RecordHash(self, sub[1], sub[2], sub[3], sub[4]).self, sub, n - 1)

\* the numbers of submissions one caller made before the threads start
Prefixes == {0, 8, 9}

\* a backend one caller has used for a while, and threads about to call it
InitUsed ==
    /\ \E c \in Constructions, n \in Prefixes :
          /\ Holds(Repeat(MockBlockchainInit(c[1], c[2]),
                          <<"abc123", T1, "camera_001", None>>, n))
          /\ issued = [k \in 1..n |-> TxId(k)]
          /\ submitted = IF n = 0 THEN {} ELSE {"abc123"}
    /\ last = NoCall
    /\ thread = [t \in Threads |-> Idle]
    /\ NoInterface

(* Two threads, each calling record_hash once *)

NextConc ==
    \E t \in Threads :
        \/ \E sub \in Submissions : CallRecordHash(t, sub)
        \/ LoadCounter(t) \/ StoreCounter(t) \/ FormatTxId(t) \/ BuildRecord(t)
        \/ PutRecord(t) \/ CheckBlock(t) \/ LoadBlock(t) \/ StoreBlock(t)
        \/ ReturnTxId(t)

SpecConc == InitUsed /\ [][NextConc]_vars

(* One thread in batch_record_hashes; an entry may fail, the caller may be *)
(* interrupted                                                             *)

\* an entry whose timestamp is no datetime
BadTuple == <<"zzz999", BadTimestamp, "camera_002", None>>

FailingBatches == SeqsUpTo(BatchTuples \cup {BadTuple}, MaxBatch)

NextBatch ==
    \/ \E recs \in FailingBatches : CallBatchRecordHashes("t1", recs)
    \/ BatchNext("t1")
    \/ LoadCounter("t1") \/ StoreCounter("t1") \/ FormatTxId("t1") \/ BuildRecord("t1")
    \/ PutRecord("t1") \/ CheckBlock("t1") \/ LoadBlock("t1") \/ StoreBlock("t1")
    \/ ReturnTxId("t1")
    \/ Interrupt("t1")

SpecBatch == InitUsed /\ [][NextBatch]_vars

(* One thread in record_hash while another is in verify_hash *)

\* a caller enters verify_hash(image_hash)
CallVerifyHash(t, image_hash) ==
    /\ thread[t].pc = "idle"
    /\ thread' = [thread EXCEPT ![t] = [Idle EXCEPT !.pc = "vh_get", !.op = "verify_hash",
                                                    !.caller = "top",
                                                    !.args = <<image_hash>>,
                                                    !.pre_counter = transaction_counter]]
    /\ UNCHANGED moduleVars
    /\ UNCHANGED <<objVars, last, issued, submitted>>

\* return self._records.get(image_hash): one dict operation
GetRecord(t) ==
    /\ thread[t].pc = "vh_get"
    /\ thread' = [thread EXCEPT ![t].pc = "done",
                                ![t].ret = DictGet(records, thread[t].args[1])]
    /\ UNCHANGED moduleVars
    /\ UNCHANGED <<objVars, last, issued, submitted>>

NextRead ==
    \/ \E sub \in Submissions : CallRecordHash("t1", sub)
    \/ LoadCounter("t1") \/ StoreCounter("t1") \/ FormatTxId("t1") \/ BuildRecord("t1")
    \/ PutRecord("t1") \/ CheckBlock("t1") \/ LoadBlock("t1") \/ StoreBlock("t1")
    \/ ReturnTxId("t1")
    \/ \E image_hash \in Hashes : CallVerifyHash("t2", image_hash)
    \/ GetRecord("t2")

SpecRead == InitUsed /\ [][NextRead]_vars

----------------------------------------------------------------------------
(* The factory, the other backends and the module-level convenience functions *)

\* longest use of one backend obtained from the factory, in submissions
MaxUse == 2

\* the backend names callers pass
BackendNames == {"mock", "MOCK", "Mock", "ethereum", "Ethereum", "loopring", "LOOPRING",
                 "invalid_backend", "Invalid_Backend"}

ProviderUrl == "https://sepolia.infura.io/v3/YOUR_KEY"

\* the keyword arguments callers pass on to the backend's constructor
Kwargs == {<<>>, [simulate_delay |-> FALSE], [provider_url |-> ProviderUrl]}

UpperCase == "ABCDEFGHIJKLMNOPQRSTUVWXYZ"
LowerCase == "abcdefghijklmnopqrstuvwxyz"

\* str.lower() of one character
LowerChar(c) ==
    IF \E k \in 1..Len(UpperCase) : SubSeq(UpperCase, k, k) = c
    THEN LET k == CHOOSE k \in 1..Len(UpperCase) : SubSeq(UpperCase, k, k) = c
         IN  SubSeq(LowerCase, k, k)
    ELSE c

RECURSIVE Lower(_)
\* str.lower()
Lower(s) ==
    IF Len(s) = 0 THEN ""
    ELSE IF Len(s) = 1 THEN LowerChar(s)
    ELSE Lower(SubSeq(s, 1, Len(s) \div 2)) \o Lower(SubSeq(s, (Len(s) \div 2) + 1, Len(s)))

\* the value of keyword argument key, or the parameter's default
Arg(kw, key, default) == IF key \in DOMAIN kw THEN kw[key] ELSE default

\* outcome of a constructor or of the factory: the class and fields of the object
\* made, or the exception raised and its message; connects counts the connections
\* opened to a node
Made(class, self, raised, message, connects) ==
    [class |-> class, self |-> self, raised |-> raised, message |-> message,
     connects |-> connects]

\* a call with a keyword argument the constructor has no parameter for
UnexpectedKeyword == Made("", None, "TypeError", "got an unexpected keyword argument", 0)

\* MockBlockchain(**kw)
NewMockBlockchain(kw) ==
    IF ~(DOMAIN kw \subseteq {"network", "simulate_delay"})
    THEN UnexpectedKeyword
    ELSE Made("MockBlockchain",
              MockBlockchainInit(Arg(kw, "network", "mock-testnet"),
                                 Arg(kw, "simulate_delay", TRUE)),
              "", "", 0)

\* EthereumBlockchain(**kw): web3 tells whether the import of web3 succeeds,
\* reachable what is_connected() answers
NewEthereumBlockchain(kw, web3, reachable) ==
    IF ~(DOMAIN kw \subseteq {"network", "provider_url", "private_key", "contract_address"})
    THEN UnexpectedKeyword
    ELSE IF ~web3
    THEN Made("", None, "ImportError",
              "web3.py is required for Ethereum backend. Install with: pip install web3", 0)
    ELSE IF "provider_url" \in DOMAIN kw /\ kw.provider_url # ""
    THEN IF reachable
         THEN Made("EthereumBlockchain",
                   [network |-> Arg(kw, "network", "sepolia"),
                    provider_url |-> kw.provider_url,
                    private_key |-> Arg(kw, "private_key", None),
                    contract_address |-> Arg(kw, "contract_address", None),
                    contract |-> None],
                   "", "", 1)
         ELSE Made("", None, "ConnectionError",
                   "Failed to connect to Ethereum node at " \o kw.provider_url, 1)
    ELSE Made("", None, "ValueError", "provider_url is required for Ethereum backend", 0)

\* LoopringBlockchain(**kw)
NewLoopringBlockchain(kw) ==
    IF ~(DOMAIN kw \subseteq {"network", "api_key", "account_id"})
    THEN UnexpectedKeyword
    ELSE Made("LoopringBlockchain",
              [network |-> Arg(kw, "network", "mainnet"),
               api_key |-> Arg(kw, "api_key", None),
               account_id |-> Arg(kw, "account_id", None)],
              "", "", 0)

\* the factory with the name compared as it was passed
GetBlockchainInterfaceExact(backend, kw, web3, reachable) ==
    IF backend = "mock" THEN NewMockBlockchain(kw)
    ELSE IF backend = "ethereum" THEN NewEthereumBlockchain(kw, web3, reachable)
    ELSE IF backend = "loopring" THEN NewLoopringBlockchain(kw)
    ELSE Made("", None, "ValueError",
              "Unknown backend: " \o backend \o ". Available: mock, ethereum, loopring", 0)

\* the factory falling back to the mock backend for a name it does not know
GetBlockchainInterfaceDefault(backend, kw, web3, reachable) ==
    IF Lower(backend) = "ethereum" THEN NewEthereumBlockchain(kw, web3, reachable)
    ELSE IF Lower(backend) = "loopring" THEN NewLoopringBlockchain(kw)
    ELSE NewMockBlockchain(kw)

\* get_blockchain_interface(backend, **kw)
GetBlockchainInterface(backend, kw, web3, reachable) ==
    LET name == Lower(backend)
    IN  IF name = "mock" THEN NewMockBlockchain(kw)
        ELSE IF name = "ethereum" THEN NewEthereumBlockchain(kw, web3, reachable)
        ELSE IF name = "loopring" THEN NewLoopringBlockchain(kw)
        ELSE Made("", None, "ValueError",
                  "Unknown backend: " \o name \o ". Available: mock, ethereum, loopring", 0)

\* what a call into a backend gave: returned value or exception
Result(raised, message, ret) == [raised |-> raised, message |-> message, ret |-> ret]

\* interface.record_hash(*sub), by the class of the object; the object afterwards
\* comes with the result
InterfaceRecordHash(obj, sub) ==
    IF obj.class = "MockBlockchain"
    THEN RecordHash(obj.self, sub[1], sub[2], sub[3], sub[4])
    ELSE Outcome(obj.self, "NotImplementedError", None, 0)

\* interface.verify_hash(image_hash)
InterfaceVerifyHash(obj, image_hash) ==
    IF obj.class = "MockBlockchain"
    THEN VerifyHash(obj.self, image_hash)
    ELSE Outcome(obj.self, "NotImplementedError", None, 0)

\* interface.batch_record_hashes(records) answering an empty list with an empty
\* list of ids on every backend
InterfaceBatchRecordHashesEmptyOk(obj, recs) ==
    IF obj.class = "MockBlockchain"
    THEN BatchRecordHashes(obj.self, recs)
    ELSE IF recs = <<>>
    THEN Outcome(obj.self, "", <<>>, 0)
    ELSE Outcome(obj.self, "NotImplementedError", None, 0)

\* interface.batch_record_hashes(records)
InterfaceBatchRecordHashes(obj, recs) ==
    IF obj.class = "MockBlockchain"
    THEN BatchRecordHashes(obj.self, recs)
    ELSE Outcome(obj.self, "NotImplementedError", None, 0)

\* interface.get_stats(): only MockBlockchain has the method
InterfaceGetStats(obj) ==
    IF obj.class = "MockBlockchain"
    THEN GetStats(obj.self)
    ELSE Outcome(obj.self, "AttributeError", None, 0)

(* The convenience functions: a backend is made by the factory for the one call *)
(* and dropped when the call returns                                           *)

\* record_to_blockchain on a backend the module keeps between calls: a mock
\* backend goes on counting from the ids already handed out
RecordToBlockchainShared(sub, backend, kw, web3, reachable) ==
    LET m == GetBlockchainInterface(backend, kw, web3, reachable)
    IN  IF m.raised # "" THEN Result(m.raised, m.message, None)
        ELSE LET kept == IF m.class = "MockBlockchain"
                         THEN [m EXCEPT !.self.transaction_counter = Len(issued)]
                         ELSE m
                 r == InterfaceRecordHash(kept, sub)
             IN  Result(r.raised, "", r.ret)

\* record_to_blockchain(*sub, backend=backend, **kw)
RecordToBlockchain(sub, backend, kw, web3, reachable) ==
    LET m == GetBlockchainInterface(backend, kw, web3, reachable)
    IN  IF m.raised # "" THEN Result(m.raised, m.message, None)
        ELSE LET r == InterfaceRecordHash(m, sub) IN Result(r.raised, "", r.ret)

\* verify_from_blockchain(image_hash, backend=backend, **kw)
VerifyFromBlockchain(image_hash, backend, kw, web3, reachable) ==
    LET m == GetBlockchainInterface(backend, kw, web3, reachable)
    IN  IF m.raised # "" THEN Result(m.raised, m.message, None)
        ELSE LET r == InterfaceVerifyHash(m, image_hash) IN Result(r.raised, "", r.ret)

\* batch_record_to_blockchain(records, backend=backend, **kw)
BatchRecordToBlockchain(recs, backend, kw, web3, reachable) ==
    LET m == GetBlockchainInterface(backend, kw, web3, reachable)
    IN  IF m.raised # "" THEN Result(m.raised, m.message, None)
        ELSE LET r == InterfaceBatchRecordHashes(m, recs) IN Result(r.raised, "", r.ret)

----------------------------------------------------------------------------
(* Fingerprints (src/src/Birthmark/hash.py) and the serialization of records: *)
(* functions without state                                                    *)

\* longest byte string hashed
MaxData == 2

\* the byte values image data and files are made of
ByteValues == {0, 171}

\* bytes objects: the image data passed, and the contents of files
DataInputs == SeqsUpTo(ByteValues, MaxData)

\* the names hashlib.algorithms_available holds, of those callers pass
AlgorithmsAvailable == {"md5", "sha256", "sha512", "shake_128"}

\* the algorithm names callers pass
AlgorithmNames == AlgorithmsAvailable \cup {"md4", "SHA-256"}

\* digest_size of a hashlib object, in bytes; the SHAKE functions have none
DigestSize(name) ==
    CASE name = "md5" -> 16
      [] name = "sha256" -> 32
      [] name = "sha512" -> 64
      [] OTHER -> 0

HexDigits == "0123456789abcdef"

\* "%02x" of one byte
ByteHex(b) ==
    SubSeq(HexDigits, (b \div 16) + 1, (b \div 16) + 1)
        \o SubSeq(HexDigits, (b % 16) + 1, (b % 16) + 1)

RECURSIVE BytesHex(_)
BytesHex(data) == IF data = <<>> THEN "" ELSE ByteHex(Head(data)) \o BytesHex(Tail(data))

RECURSIVE Zeros(_)
\* "0" * n
Zeros(n) ==
    IF n <= 0 THEN ""
    ELSE IF n = 1 THEN "0"
    ELSE Zeros(n \div 2) \o Zeros(n - (n \div 2))

\* the mark by which the stand-in digest of one algorithm differs from another's
AlgorithmTag(name) ==
    CASE name = "md5" -> "d5" [] name = "sha256" -> "a2" [] name = "sha512" -> "c5"
      [] OTHER -> "ee"

\* hashlib.new(name)
HashlibNew(name) == [name |-> name, fed |-> <<>>]

\* hasher.update(data): the digest is one of all bytes fed so far, in order
HasherUpdate(hasher, data) == [hasher EXCEPT !.fed = @ \o data]

\* a cryptographic digest is stood in for by an injective padding of the bytes fed:
\* lower-case hexadecimal, 2 * digest_size characters
StandInDigest(hasher) ==
    LET body == AlgorithmTag(hasher.name) \o BytesHex(hasher.fed) \o "8"
    IN  body \o Zeros(2 * DigestSize(hasher.name) - Len(body))

\* outcome of a function of hash.py: what was returned or raised, the bytes read
\* from the file and the bytes fed to the hasher
Hashed(raised, message, ret, read, fed) ==
    [raised |-> raised, message |-> message, ret |-> ret, read |-> read, fed |-> fed]

\* hasher.hexdigest(): the SHAKE objects require a length argument
HexDigest(hasher, read) ==
    IF DigestSize(hasher.name) = 0
    THEN Hashed("TypeError", "hexdigest() missing required argument 'length' (pos 1)",
                None, read, Len(hasher.fed))
    ELSE Hashed("", "", StandInDigest(hasher), read, Len(hasher.fed))

\* raise ValueError(f"Unsupported algorithm: {algorithm}")
Unsupported(algorithm) ==
    Hashed("ValueError", "Unsupported algorithm: " \o algorithm, None, 0, 0)

\* with the digest: (hexdigest, datetime.utcnow())
Stamped(d, now) ==
    IF d.raised # "" THEN d ELSE Hashed("", "", <<d.ret, now>>, d.read, d.fed)

\* compute_image_hash(image_data, algorithm), called at time now
ComputeImageHash(image_data, algorithm, now) ==
    IF algorithm \notin AlgorithmsAvailable
    THEN Unsupported(algorithm)
    ELSE Stamped(HexDigest(HasherUpdate(HashlibNew(algorithm), image_data), 0), now)

\* a file: whether it exists, and its contents
File(name, exists, content) == [name |-> name, exists |-> exists, content |-> content]

\* f.read(size) at position pos: all that is left for a negative size
FileRead(content, pos, size) ==
    IF size < 0 THEN SubSeq(content, pos + 1, Len(content))
    ELSE SubSeq(content, pos + 1, IF pos + size > Len(content) THEN Len(content)
                                                              ELSE pos + size)

RECURSIVE ReadLoop(_, _, _, _)
\* while chunk := f.read(chunk_size): hasher.update(chunk)
ReadLoop(content, pos, chunk_size, hasher) ==
    LET chunk == FileRead(content, pos, chunk_size)
    IN  IF chunk = <<>> THEN [hasher |-> hasher, read |-> pos]
        ELSE ReadLoop(content, pos + Len(chunk), chunk_size, HasherUpdate(hasher, chunk))

\* compute_file_hash reading the file before it looks at the algorithm
ComputeFileHashLateCheck(file, algorithm, chunk_size, now) ==
    IF ~file.exists
    THEN Hashed("FileNotFoundError", "File not found: " \o file.name, None, 0, 0)
    ELSE LET r == ReadLoop(file.content, 0, chunk_size, HashlibNew(algorithm))
         IN  IF algorithm \notin AlgorithmsAvailable
             THEN Hashed("ValueError", "Unsupported algorithm: " \o algorithm, None,
                         r.read, 0)
             ELSE Stamped(HexDigest(r.hasher, r.read), now)

\* compute_file_hash(file_path, algorithm, chunk_size), called at time now
ComputeFileHash(file, algorithm, chunk_size, now) ==
    IF ~file.exists
    THEN Hashed("FileNotFoundError", "File not found: " \o file.name, None, 0, 0)
    ELSE IF algorithm \notin AlgorithmsAvailable
    THEN Unsupported(algorithm)
    ELSE LET r == ReadLoop(file.content, 0, chunk_size, HashlibNew(algorithm))
         IN  Stamped(HexDigest(r.hasher, r.read), now)

\* verify_hash of hash.py comparing without regard to letter case
HashVerifyHashIgnoreCase(image_data, expected_hash, algorithm, now) ==
    LET c == ComputeImageHash(image_data, algorithm, now)
    IN  IF c.raised # "" THEN c
        ELSE Hashed("", "", Lower(c.ret[1]) = Lower(expected_hash), c.read, c.fed)

\* verify_hash(image_data, expected_hash, algorithm) of hash.py
HashVerifyHash(image_data, expected_hash, algorithm, now) ==
    LET c == ComputeImageHash(image_data, algorithm, now)
    IN  IF c.raised # "" THEN c
        ELSE Hashed("", "", c.ret[1] = expected_hash, c.read, c.fed)

(* BirthmarkRecord.to_dict and from_dict; a dict is a sequence of key/value *)
(* pairs in insertion order                                                 *)

FieldNames ==
    <<"hash", "timestamp", "camera_id", "geolocation", "transaction_id", "block_number",
      "network">>

RequiredFields == {"hash", "timestamp", "camera_id"}

\* to_dict with the transaction id under a shorter key
ToDictRenamed(r) ==
    [k \in 1..Len(FieldNames) |->
        <<IF FieldNames[k] = "transaction_id" THEN "tx_id" ELSE FieldNames[k],
          r[FieldNames[k]]>>]

\* asdict(self): one item per field, under the field's name, in field order
ToDict(r) == [k \in 1..Len(FieldNames) |-> <<FieldNames[k], r[FieldNames[k]]>>]

Keys(d) == {d[k][1] : k \in 1..Len(d)}

\* d[key]
Item(d, key) == d[CHOOSE k \in 1..Len(d) : d[k][1] = key][2]

\* cls(**data): every key must be a field, the fields without default must be
\* given, the others default to None
FromDict(d) ==
    IF ~(Keys(d) \subseteq {FieldNames[k] : k \in 1..Len(FieldNames)})
    THEN Result("TypeError", "got an unexpected keyword argument", None)
    ELSE IF ~(RequiredFields \subseteq Keys(d))
    THEN Result("TypeError", "missing required positional arguments", None)
    ELSE Result("", "",
                [f \in {FieldNames[k] : k \in 1..Len(FieldNames)} |->
                    IF f \in Keys(d) THEN Item(d, f) ELSE None])

(* A caller of the functions without state: one call is made with arguments *)
(* of the caller's choice and its outcome observed                          *)

\* the records serialized: each optional field set or left at its default
RecordInput(g, x, b, n) ==
    BirthmarkRecord("abc123", IsoFormat(T1), "camera_001", IF g THEN Portland ELSE None,
                    IF x THEN TxId(1) ELSE None, IF b THEN InitialBlock ELSE None,
                    IF n THEN "mock-testnet" ELSE None)

\* a dict of the fields without default only
RequiredOnly ==
    <<<<"hash", "test_hash">>, <<"timestamp", "2025-11-02T12:00:00">>,
      <<"camera_id", "camera_001">>>>

\* the files hashed
Files ==
    {File("photo.raw", TRUE, c) : c \in DataInputs}
        \cup {File("nonexistent.raw", FALSE, <<>>)}

\* the chunk sizes passed
ChunkSizes == {-1, 0, 1, 2, 8192}

\* the clock readings
Clock == {T1, T2}

\* str.upper() of one character
UpperChar(c) ==
    IF \E k \in 1..Len(LowerCase) : SubSeq(LowerCase, k, k) = c
    THEN LET k == CHOOSE k \in 1..Len(LowerCase) : SubSeq(LowerCase, k, k) = c
         IN  SubSeq(UpperCase, k, k)
    ELSE c

RECURSIVE Upper(_)
\* str.upper()
Upper(s) ==
    IF Len(s) = 0 THEN ""
    ELSE IF Len(s) = 1 THEN UpperChar(s)
    ELSE Upper(SubSeq(s, 1, Len(s) \div 2)) \o Upper(SubSeq(s, (Len(s) \div 2) + 1, Len(s)))

\* the digests callers expect: the digest of some data under the algorithm, as
\* computed or in upper case, and a digest of another image
ExpectedHashes(algorithm) ==
    {"9f86d081884c7d659a2feaa0c55ad015a3bf4f1b2b0b822cd15d6c15b0f00a08"}
        \cup UNION {{c.ret[1], Upper(c.ret[1])} :
                       c \in {k \in {ComputeImageHash(d, algorithm, T1) : d \in DataInputs} :
                                 k.raised = ""}}

\* the observation of a call of a function without state
Observed(op, args, r) ==
    [op |-> op, args |-> args, raised |-> r.raised, message |-> r.message, ret |-> r.ret,
     read |-> IF "read" \in DOMAIN r THEN r.read ELSE 0,
     fed |-> IF "fed" \in DOMAIN r THEN r.fed ELSE 0]

InitPure ==
    /\ Holds(MockBlockchainInit("mock-testnet", TRUE))
    /\ last = NoCall
    /\ issued = <<>>
    /\ submitted = {}
    /\ thread = [t \in Threads |-> Idle]
    /\ NoInterface

DoComputeImageHash ==
    /\ last.op = "init"
    /\ \E image_data \in DataInputs, algorithm \in AlgorithmNames, now \in Clock :
        /\ last' = Observed("compute_image_hash", <<image_data, algorithm>>,
                            ComputeImageHash(image_data, algorithm, now))
        /\ UNCHANGED <<objVars, issued, submitted, thread, moduleVars>>

DoComputeFileHash ==
    /\ last.op = "init"
    /\ \E file \in Files, algorithm \in AlgorithmNames, chunk_size \in ChunkSizes,
       now \in Clock :
        /\ last' = Observed("compute_file_hash", <<file, algorithm, chunk_size>>,
                            ComputeFileHash(file, algorithm, chunk_size, now))
        /\ UNCHANGED <<objVars, issued, submitted, thread, moduleVars>>

DoHashVerifyHash ==
    /\ last.op = "init"
    /\ \E image_data \in DataInputs, algorithm \in AlgorithmNames, now \in Clock :
        \E expected_hash \in ExpectedHashes(algorithm) :
            /\ last' = Observed("verify_hash", <<image_data, algorithm, expected_hash>>,
                                HashVerifyHash(image_data, expected_hash, algorithm, now))
            /\ UNCHANGED <<objVars, issued, submitted, thread, moduleVars>>

DoToDict ==
    /\ last.op = "init"
    /\ \E g \in BOOLEAN, x \in BOOLEAN, b \in BOOLEAN, n \in BOOLEAN :
        /\ last' = Observed("to_dict", <<RecordInput(g, x, b, n)>>,
                            Result("", "", ToDict(RecordInput(g, x, b, n))))
        /\ UNCHANGED <<objVars, issued, submitted, thread, moduleVars>>

DoFromDict ==
    /\ last.op = "init"
    /\ \E g \in BOOLEAN, x \in BOOLEAN, b \in BOOLEAN, n \in BOOLEAN, given \in BOOLEAN :
        \E d \in {IF given THEN ToDict(RecordInput(g, x, b, n)) ELSE RequiredOnly} :
            /\ last' = Observed("from_dict", <<d>>, FromDict(d))
            /\ UNCHANGED <<objVars, issued, submitted, thread, moduleVars>>

NextPure ==
    \/ DoComputeImageHash \/ DoComputeFileHash \/ DoHashVerifyHash
    \/ DoToDict \/ DoFromDict

SpecPure == InitPure /\ [][NextPure]_vars

(* compute_file_hash statement by statement: in a thread in the call, args is *)
(* <<file, algorithm, chunk_size>>, tmp the position in the file, i the number *)
(* of reads made and recs the bytes fed to the hasher                          *)

\* a caller enters compute_file_hash: the two checks, hashlib.new, open
CallComputeFileHash(t, file, algorithm, chunk_size) ==
    /\ thread[t].pc = "idle"
    /\ thread' = [thread EXCEPT ![t] =
           [Idle EXCEPT !.op = "compute_file_hash",
                        !.caller = "top",
                        !.args = <<file, algorithm, chunk_size>>,
                        !.pc = IF file.exists /\ algorithm \in AlgorithmsAvailable
                               THEN "fh_read" ELSE "done",
                        !.raised = IF ~file.exists THEN "FileNotFoundError"
                                   ELSE IF algorithm \notin AlgorithmsAvailable
                                   THEN "ValueError" ELSE ""]]
    /\ UNCHANGED moduleVars
    /\ UNCHANGED <<objVars, last, issued, submitted>>

\* the read that never moves on: the file is read from the start every time
ReadChunkRewind(t) ==
    /\ thread[t].pc = "fh_read"
    /\ \E chunk \in {FileRead(thread[t].args[1].content, 0, thread[t].args[3])} :
           thread' = [thread EXCEPT
               ![t].i = @ + 1,
               ![t].pc = IF chunk = <<>> THEN "fh_digest" ELSE "fh_read",
               ![t].recs = @ \o chunk]
    /\ UNCHANGED moduleVars
    /\ UNCHANGED <<objVars, last, issued, submitted>>

\* while chunk := f.read(chunk_size): hasher.update(chunk) -- one read, and the
\* update when the chunk is not empty
ReadChunk(t) ==
    /\ thread[t].pc = "fh_read"
    /\ \E chunk \in {FileRead(thread[t].args[1].content, thread[t].tmp,
                              thread[t].args[3])} :
           thread' = [thread EXCEPT
               ![t].i = @ + 1,
               ![t].pc = IF chunk = <<>> THEN "fh_digest" ELSE "fh_read",
               ![t].tmp = @ + Len(chunk),
               ![t].recs = @ \o chunk]
    /\ UNCHANGED moduleVars
    /\ UNCHANGED <<objVars, last, issued, submitted>>

\* return hasher.hexdigest(), datetime.utcnow()
ReturnDigest(t) ==
    /\ thread[t].pc = "fh_digest"
    /\ \E now \in Clock :
           \E r \in {Stamped(HexDigest([name |-> thread[t].args[2],
                                        fed |-> thread[t].recs], thread[t].tmp), now)} :
               thread' = [thread EXCEPT ![t].pc = "done", ![t].raised = r.raised,
                                        ![t].ret = r.ret]
    /\ UNCHANGED moduleVars
    /\ UNCHANGED <<objVars, last, issued, submitted>>

NextChunk ==
    \/ \E file \in Files, algorithm \in AlgorithmNames, chunk_size \in ChunkSizes :
           CallComputeFileHash("t1", file, algorithm, chunk_size)
    \/ ReadChunk("t1")
    \/ ReturnDigest("t1")

SpecChunk == InitPure /\ [][NextChunk]_vars

----------------------------------------------------------------------------
(* The camera (src/src/Birthmark/camera.py): capture, fingerprint, record *)

\* CameraInterface(camera_id, network, auto_record)
CameraInterfaceInit(camera_id, net, auto_record) ==
    [camera_id |-> camera_id, network |-> net, auto_record |-> auto_record]

\* the dataclass CaptureResult
CaptureResult(image_path, hash, timestamp, transaction_id, camera_id) ==
    [image_path |-> image_path, hash |-> hash, timestamp |-> timestamp,
     transaction_id |-> transaction_id, camera_id |-> camera_id]

\* capture_authenticated(output_path, geolocation).  _capture_raw_data and
\* _save_with_metadata raise NotImplementedError in CameraInterface itself;
\* hooks tells whether a subclass provides them, image_data is what the sensor
\* then delivers
CaptureAuthenticated(self, output_path, geolocation, hooks, image_data, now, web3) ==
    IF ~hooks
    THEN Result("NotImplementedError", "Camera capture not yet implemented", None)
    ELSE LET c == ComputeImageHash(image_data, "sha256", now)
             t == IF self.auto_record
                  THEN RecordToBlockchain(<<c.ret[1], c.ret[2], self.camera_id, geolocation>>,
                                          "mock", [network |-> self.network], web3, TRUE)
                  ELSE Result("", "", None)
         IN  IF t.raised # "" THEN t
             ELSE Result("", "",
                         CaptureResult(output_path, c.ret[1], c.ret[2], t.ret,
                                       self.camera_id))

\* the names and keyword arguments the convenience functions are called with

----------------------------------------------------------------------------
(* A caller of the module-level functions: each call is made with arguments *)
(* of the caller's choice and its outcome observed                          *)

ConvenienceBackends == {"mock", "loopring"}
ConvenienceKwargs == {<<>>, [simulate_delay |-> FALSE]}

\* the observation of a call of the module
Seen(op, args, raised, message, ret, connects) ==
    [op |-> op, args |-> args, raised |-> raised, message |-> message, ret |-> ret,
     connects |-> connects]

\* the object a successful constructor call made
Object(m) == IF m.raised = "" THEN [class |-> m.class, self |-> m.self] ELSE None

InitModule ==
    /\ Holds(MockBlockchainInit("mock-testnet", TRUE))
    /\ last = NoCall
    /\ issued = <<>>
    /\ submitted = {}
    /\ thread = [t \in Threads |-> Idle]
    /\ interface = [h \in Handles |-> ""]
    /\ heap = [a \in Handles |-> None]
    /\ web3_installed \in BOOLEAN

\* get_blockchain_interface(backend, **kw), the result not kept
CallGetBlockchainInterface ==
    \E backend \in BackendNames, kw \in Kwargs, reachable \in BOOLEAN :
        /\ \E m \in {GetBlockchainInterface(backend, kw, web3_installed, reachable)} :
               last' = Seen("get_blockchain_interface", <<backend, kw>>, m.raised,
                            m.message, Object(m), m.connects)
        /\ UNCHANGED <<objVars, issued, submitted, thread, moduleVars>>

\* EthereumBlockchain(**kw)
CallEthereumBlockchain ==
    \E kw \in Kwargs, reachable \in BOOLEAN :
        /\ \E m \in {NewEthereumBlockchain(kw, web3_installed, reachable)} :
               last' = Seen("EthereumBlockchain", <<"ethereum", kw>>, m.raised,
                            m.message, Object(m), m.connects)
        /\ UNCHANGED <<objVars, issued, submitted, thread, moduleVars>>

\* the ids record_to_blockchain returned are kept in issued, in call order
DoRecordToBlockchain ==
    \E sub \in BatchTuples, backend \in ConvenienceBackends, kw \in ConvenienceKwargs :
        /\ \E r \in {RecordToBlockchain(sub, backend, kw, web3_installed, TRUE)} :
               /\ r.raised = "" => Len(issued) < MaxUse
               /\ last' = Seen("record_to_blockchain", <<sub, backend, kw>>, r.raised,
                               r.message, r.ret, 0)
               /\ submitted' = IF r.raised = "" THEN submitted \cup {sub[1]}
                                                ELSE submitted
               /\ issued' = IF r.raised = "" THEN Append(issued, r.ret) ELSE issued
        /\ UNCHANGED <<objVars, thread, moduleVars>>

DoVerifyFromBlockchain ==
    \E image_hash \in Hashes, backend \in ConvenienceBackends, kw \in ConvenienceKwargs :
        /\ \E r \in {VerifyFromBlockchain(image_hash, backend, kw, web3_installed, TRUE)} :
               last' = Seen("verify_from_blockchain", <<image_hash, backend, kw>>,
                            r.raised, r.message, r.ret, 0)
        /\ UNCHANGED <<objVars, issued, submitted, thread, moduleVars>>

DoBatchRecordToBlockchain ==
    \E recs \in Batches, backend \in ConvenienceBackends, kw \in ConvenienceKwargs :
        /\ \E r \in {BatchRecordToBlockchain(recs, backend, kw, web3_installed, TRUE)} :
               /\ last' = Seen("batch_record_to_blockchain", <<recs, backend, kw>>,
                               r.raised, r.message, r.ret, 0)
               /\ submitted' = IF r.raised = ""
                               THEN submitted \cup {recs[k][1] : k \in 1..Len(recs)}
                               ELSE submitted
        /\ UNCHANGED <<objVars, issued, thread, moduleVars>>

\* CameraInterface(camera_id, auto_record=auto_record).capture_authenticated(path,
\* geolocation); the id it got from record_to_blockchain is kept in issued
DoCaptureAuthenticated ==
    \E auto_record \in BOOLEAN, hooks \in BOOLEAN, geolocation \in {None, Portland},
       image_data \in {<<>>, <<171>>} :
        /\ \E r \in {CaptureAuthenticated(
                         CameraInterfaceInit("camera_001", "testnet", auto_record),
                         "photo.jpg", geolocation, hooks, image_data, T1,
                         web3_installed)} :
               /\ (r.raised = "" /\ auto_record) => Len(issued) < MaxUse
               /\ last' = Seen("capture_authenticated",
                               <<auto_record, hooks, geolocation, image_data>>,
                               r.raised, r.message, r.ret, 0)
               /\ issued' = IF r.raised = "" /\ auto_record
                             THEN Append(issued, r.ret.transaction_id) ELSE issued
        /\ UNCHANGED <<objVars, submitted, thread, moduleVars>>

NextModule ==
    \/ CallGetBlockchainInterface \/ CallEthereumBlockchain
    \/ DoRecordToBlockchain \/ DoVerifyFromBlockchain \/ DoBatchRecordToBlockchain

SpecModule == InitModule /\ [][NextModule]_vars

(* A caller of the functions that record: the camera and the convenience *)
(* functions                                                             *)

NextCamera ==
    \/ DoCaptureAuthenticated
    \/ DoRecordToBlockchain \/ DoVerifyFromBlockchain \/ DoBatchRecordToBlockchain

SpecCamera == InitModule /\ [][NextCamera]_vars

(* A caller that keeps the backends the factory returns in its variables and *)
(* uses them                                                                 *)

\* the names the kept backends are asked for by
KeptBackends == {"mock", "MOCK", "loopring"}

\* the factory keeping the backend it made: a later call hands out the object
\* some variable already refers to
CachedAddress(h) ==
    IF \E g \in Handles : interface[g] # ""
    THEN CHOOSE a \in Handles : \E g \in Handles : interface[g] = a
    ELSE h

\* the address of the object a constructor call makes for variable h: a new
\* object, at an address no variable refers to
NewAddress(h) ==
    IF \A g \in Handles : interface[g] # h THEN h
    ELSE CHOOSE a \in Handles : \A g \in Handles \ {h} : interface[g] # a

\* the object variable h refers to
At(h) == heap[interface[h]]

InitKept ==
    /\ Holds(MockBlockchainInit("mock-testnet", TRUE))
    /\ last = NoCall
    /\ issued = <<>>
    /\ submitted = {}
    /\ thread = [t \in Threads |-> Idle]
    /\ NoInterface

\* h = get_blockchain_interface(backend)
DoGetBlockchainInterface ==
    \E h \in Handles, backend \in KeptBackends, kw \in {<<>>} :
        /\ \E m \in {GetBlockchainInterface(backend, kw, web3_installed, TRUE)} :
               /\ IF m.raised = ""
                  THEN \E a \in {NewAddress(h)} :
                           /\ interface' = [interface EXCEPT ![h] = a]
                           /\ heap' = [heap EXCEPT ![a] = Object(m)]
                  ELSE UNCHANGED <<interface, heap>>
               /\ last' = Seen("get_blockchain_interface", <<backend, kw, h>>, m.raised,
                               m.message, Object(m), m.connects)
        /\ UNCHANGED <<objVars, issued, submitted, thread, web3_installed>>

\* h.record_hash(*sub)
DoInterfaceRecordHash ==
    \E h \in Handles, sub \in BatchTuples :
        /\ interface[h] # ""
        /\ At(h).class = "MockBlockchain" => At(h).self.transaction_counter < MaxUse
        /\ \E r \in {InterfaceRecordHash(At(h), sub)} :
               /\ heap' = [heap EXCEPT ![interface[h]].self = r.self]
               /\ last' = Seen("record_hash", <<h, sub>>, r.raised, "", r.ret, 0)
        /\ UNCHANGED <<objVars, issued, submitted, thread, interface, web3_installed>>

\* h.verify_hash(image_hash)
DoInterfaceVerifyHash ==
    \E h \in Handles, image_hash \in Hashes :
        /\ interface[h] # ""
        /\ \E r \in {InterfaceVerifyHash(At(h), image_hash)} :
               /\ heap' = [heap EXCEPT ![interface[h]].self = r.self]
               /\ last' = Seen("verify_hash", <<h, image_hash>>, r.raised, "", r.ret, 0)
        /\ UNCHANGED <<objVars, issued, submitted, thread, interface, web3_installed>>

\* h.get_stats()
DoInterfaceGetStats ==
    \E h \in Handles :
        /\ interface[h] # ""
        /\ \E r \in {InterfaceGetStats(At(h))} :
               /\ heap' = [heap EXCEPT ![interface[h]].self = r.self]
               /\ last' = Seen("get_stats", <<h>>, r.raised, "", r.ret, 0)
        /\ UNCHANGED <<objVars, issued, submitted, thread, interface, web3_installed>>

\* h.batch_record_hashes(recs)
DoInterfaceBatchRecordHashes ==
    \E h \in Handles, recs \in Batches :
        /\ interface[h] # ""
        /\ At(h).class = "MockBlockchain"
               => At(h).self.transaction_counter + Len(recs) <= MaxUse
        /\ \E r \in {InterfaceBatchRecordHashes(At(h), recs)} :
               /\ heap' = [heap EXCEPT ![interface[h]].self = r.self]
               /\ last' = Seen("batch_record_hashes", <<h, recs>>, r.raised, "", r.ret, 0)
        /\ UNCHANGED <<objVars, issued, submitted, thread, interface, web3_installed>>

NextKept ==
    \/ DoGetBlockchainInterface
    \/ DoInterfaceRecordHash \/ DoInterfaceVerifyHash \/ DoInterfaceGetStats
    \/ DoInterfaceBatchRecordHashes

SpecKept == InitKept /\ [][NextKept]_vars

----------------------------------------------------------------------------
(* Reading results back, independently of the formatting above *)

DigitValue(c) ==
    CASE c = "0" -> 0 [] c = "1" -> 1 [] c = "2" -> 2 [] c = "3" -> 3 [] c = "4" -> 4
      [] c = "5" -> 5 [] c = "6" -> 6 [] c = "7" -> 7 [] c = "8" -> 8 [] c = "9" -> 9
      [] OTHER -> -100000000

RECURSIVE Decimal(_)
\* the number a string of decimal digits writes
Decimal(s) ==
    IF Len(s) = 0 THEN 0
    ELSE Decimal(SubSeq(s, 1, Len(s) - 1)) * 10 + DigitValue(SubSeq(s, Len(s), Len(s)))

\* id is "mock_tx_" followed by the eight-digit decimal of k
IsTxIdOf(id, k) ==
    /\ Len(id) = 16
    /\ SubSeq(id, 1, 8) = "mock_tx_"
    /\ Decimal(SubSeq(id, 9, 16)) = k

TxNumber(id) == Decimal(SubSeq(id, 9, Len(id)))

\* the ISO-8601 text of the two datetimes in use
IsoText(t) == IF t = T1 THEN "2024-01-15T09:05:00" ELSE "2024-11-03T17:30:42.001500"

\* the last call was op and returned
Returned(op) == last.op = op /\ last.raised = ""

----------------------------------------------------------------------------
(* Properties of one caller on one backend *)

\* C1: after record_hash(f, t, s, g) has returned x, verify_hash(f) returns a record
\* with hash f, camera_id s, geolocation g (None when omitted), the ISO text of t,
\* transaction_id x, and a block number that is set and is at least the block
\* counter as it was before the submission.
C1_LookupAfterSubmit ==
    Returned("record_hash") =>
        LET v == VerifyHash(Self, last.args[1])
        IN  /\ v.raised = ""
            /\ v.ret # None
            /\ v.ret.hash = last.args[1]
            /\ v.ret.timestamp = IsoText(last.args[2])
            /\ v.ret.camera_id = last.args[3]
            /\ v.ret.geolocation = last.args[4]
            /\ v.ret.transaction_id = last.ret
            /\ v.ret.block_number \in Nat
            /\ v.ret.block_number >= last.pre_block

\* a submission with a geolocation that closed a block
C1_Witness ==
    /\ Returned("record_hash")
    /\ last.args[4] = Portland
    /\ last.pre_block < block_counter

\* C2: the ids returned by successive record_hash calls, those made inside
\* batch_record_hashes included, are pairwise distinct and increase in issuance
\* order: the k-th returned id is the one formatted from counter value k.
C2_IdsFollowCounter ==
    /\ \A k \in 1..Len(issued) : IsTxIdOf(issued[k], k)
    /\ \A j, k \in 1..Len(issued) : j # k => issued[j] # issued[k]
    /\ \A k \in 1..(Len(issued) - 1) : TxNumber(issued[k]) < TxNumber(issued[k + 1])

\* ids were handed out by single calls and by a batch, past the tenth
C2_Witness ==
    /\ Returned("batch_record_hashes")
    /\ Len(last.args) = 2
    /\ last.pre_counter > 0
    /\ Len(issued) > 10

\* C3: on a fresh backend used by one caller the block counter is
\* 1000 + floor(total_transactions / 10) in every state: 1001 after exactly 10
\* submissions, 1002 after 25.
C3_BlockPerTenTransactions ==
    LET stats == GetStats(Self).ret
    IN  /\ stats.total_transactions = Len(issued)
        /\ stats.current_block = 1000 + (stats.total_transactions \div 10)
        /\ Len(issued) = 10 => stats.current_block = 1001
        /\ Len(issued) = 25 => stats.current_block = 1002

\* 25 submissions have been made
C3_Witness == Len(issued) = 25 /\ block_counter = 1002

\* C6: submitting a fingerprint that is already stored overwrites its record:
\* verify_hash then returns the second submission's timestamp, camera_id,
\* geolocation and transaction id, and the map still holds one record for it.
C6_Overwrite ==
    [][(/\ last'.op = "record_hash"
        /\ last'.raised = ""
        /\ last'.args[1] \in DOMAIN records)
       => LET f == last'.args[1]
              v == VerifyHash(Self', f).ret
          IN  /\ v # None
              /\ v.hash = f
              /\ v.timestamp = IsoText(last'.args[2])
              /\ v.camera_id = last'.args[3]
              /\ v.geolocation = last'.args[4]
              /\ v.transaction_id = last'.ret
              /\ v.transaction_id # records[f].transaction_id
              /\ DOMAIN records' = DOMAIN records
              /\ GetStats(Self').ret.total_records = GetStats(Self).ret.total_records
      ]_vars

\* abc123 was submitted at least twice, last with the second set of metadata,
\* and is the only fingerprint stored
C6_Witness ==
    /\ Returned("record_hash")
    /\ last.args = <<"abc123", T2, "camera_002", Portland>>
    /\ last.pre_counter >= 1
    /\ DOMAIN records = {"abc123"}

\* C7: verify_hash of a fingerprint never submitted returns None as a normal
\* result and raises nothing.
C7_AbsentIsNone ==
    /\ \A f \in Hashes \ submitted :
           /\ VerifyHash(Self, f).raised = ""
           /\ VerifyHash(Self, f).ret = None
    /\ (last.op = "verify_hash" /\ last.args[1] \notin submitted)
           => (last.raised = "" /\ last.ret = None)

\* a lookup of a fingerprint never submitted, on a backend that holds records
C7_Witness ==
    /\ last.op = "verify_hash"
    /\ last.args[1] = "nonexistent_hash"
    /\ DOMAIN records # {}

\* the entries of recs after position i that carry the fingerprint of entry i
LaterSame(recs, i) == {k \in (i + 1)..Len(recs) : recs[k][1] = recs[i][1]}

\* C8: batch_record_hashes on N tuples returns exactly N ids, the i-th being the
\* one assigned to the i-th tuple, and afterwards verify_hash finds every
\* fingerprint of the input.
C8_BatchIdsInOrder ==
    Returned("batch_record_hashes") =>
        LET recs == last.args
            ids == last.ret
        IN  /\ Len(ids) = Len(recs)
            /\ \A i \in 1..Len(recs) :
                   /\ IsTxIdOf(ids[i], last.pre_counter + i)
                   /\ VerifyHash(Self, recs[i][1]).raised = ""
                   /\ VerifyHash(Self, recs[i][1]).ret # None
                   /\ LaterSame(recs, i) = {} =>
                          LET v == VerifyHash(Self, recs[i][1]).ret
                          IN  /\ v.transaction_id = ids[i]
                              /\ v.timestamp = IsoText(recs[i][2])
                              /\ v.camera_id = recs[i][3]
                              /\ v.geolocation = recs[i][4]

\* a batch of two different fingerprints on a backend already in use
C8_Witness ==
    /\ Returned("batch_record_hashes")
    /\ Len(last.args) = 2
    /\ last.args[1][1] # last.args[2][1]
    /\ last.pre_counter >= 1

RECURSIVE EachInTurn(_, _)
\* record_hash called once per tuple, in input order: the ids and the object after
EachInTurn(self, recs) ==
    IF recs = <<>>
    THEN [self |-> self, ids |-> <<>>]
    ELSE LET r == RecordHash(self, Head(recs)[1], Head(recs)[2], Head(recs)[3],
                             Head(recs)[4])
             rest == EachInTurn(r.self, Tail(recs))
         IN  [self |-> rest.self, ids |-> <<r.ret>> \o rest.ids]

\* C9: from the same backend state, batch_record_hashes(records) and one
\* record_hash call per tuple in input order give the same ids and the same
\* record map, transaction counter and block counter.
C9_BatchIsEachInTurn ==
    [][(last'.op = "batch_record_hashes" /\ last'.raised = "")
       => LET e == EachInTurn(Self, last'.args)
          IN  /\ last'.ret = e.ids
              /\ records' = e.self.records
              /\ transaction_counter' = e.self.transaction_counter
              /\ block_counter' = e.self.block_counter
      ]_vars

\* a batch that submitted the same fingerprint twice and closed a block
C9_Witness ==
    /\ Returned("batch_record_hashes")
    /\ Len(last.args) = 2
    /\ last.args[1][1] = last.args[2][1]
    /\ last.pre_block < block_counter

----------------------------------------------------------------------------
(* Properties of concurrent callers *)

AllDone == \A t \in Threads : thread[t].pc = "done"

\* C4: when two callers run record_hash concurrently on one backend, no two
\* submissions are given the same transaction id, and once all calls have
\* completed the transaction counter equals the number of completed submissions.
C4_DistinctIdsUnderConcurrency ==
    AllDone =>
        /\ \A j, k \in 1..Len(issued) : j # k => issued[j] # issued[k]
        /\ transaction_counter = Len(issued)

\* C5: when record_hash calls run concurrently, no block advancement is lost:
\* once all N submissions have completed the block counter is its starting value
\* plus floor(N / 10).
C5_NoLostBlockAdvance ==
    AllDone => block_counter = InitialBlock + (Len(issued) \div BlockInterval)

----------------------------------------------------------------------------
(* Properties of a batch that stops part-way *)

Me == thread["t1"]

\* batch_record_hashes stopped at entry Me.i: an entry failed or the caller was
\* interrupted
Stopped == Me.pc = "done" /\ Me.op = "batch_record_hashes" /\ Me.raised # ""

\* the entries after j, up to the one the batch stopped at, with j's fingerprint
Resubmitted(j) ==
    {k \in (j + 1)..Me.i : k <= Len(Me.recs) /\ Me.recs[k][1] = Me.recs[j][1]}

\* the counters count every entry before the one the batch stopped at
CountersInclude(n) ==
    /\ transaction_counter >= Me.pre_counter + n
    /\ block_counter >= InitialBlock + ((Me.pre_counter + n) \div BlockInterval)

\* C10 as stated: if batch_record_hashes stops at entry i, every entry before i
\* stays committed: verify_hash still returns its record, with the transaction
\* id it was assigned, and the counters still include it.
C10_PrefixKeepsOwnRecord ==
    Stopped =>
        /\ CountersInclude(Me.i - 1)
        /\ \A j \in Before(Me.i) :
               LET v == VerifyHash(Self, Me.recs[j][1]).ret
               IN  /\ v # None
                   /\ v.transaction_id = Me.tx_ids[j]

\* the last entry before the one the batch stopped at that carries j's fingerprint
LastBefore(j) ==
    CHOOSE k \in {j} \cup (Resubmitted(j) \cap Before(Me.i)) :
        \A m \in {j} \cup (Resubmitted(j) \cap Before(Me.i)) : m <= k

\* the id of the entry the batch stopped at, if it carries j's fingerprint and
\* had been given an id
InFlightId(j) ==
    IF Me.i \in Resubmitted(j) /\ Me.tx_id # "" THEN {Me.tx_id} ELSE {}

\* C10 as amended: if batch_record_hashes stops at entry i, every entry before i
\* stays committed: the counters still include it and verify_hash still finds its
\* fingerprint, returning the record of the last entry up to i that stored that
\* fingerprint: the entry's own record, with the transaction id it was assigned,
\* when no later entry of the batch up to i carried the same fingerprint.
C10_PrefixCommitted ==
    Stopped =>
        /\ CountersInclude(Me.i - 1)
        /\ \A j \in Before(Me.i) :
               LET v == VerifyHash(Self, Me.recs[j][1]).ret
               IN  /\ v # None
                   /\ v.hash = Me.recs[j][1]
                   /\ v.transaction_id \in {Me.tx_ids[LastBefore(j)]} \cup InFlightId(j)
                   /\ Resubmitted(j) = {} =>
                          /\ v.transaction_id = Me.tx_ids[j]
                          /\ v.timestamp = IsoText(Me.recs[j][2])
                          /\ v.camera_id = Me.recs[j][3]
                          /\ v.geolocation = Me.recs[j][4]

\* a batch on a used backend stopped at a failing entry that was not the first
C10_Witness ==
    /\ Stopped
    /\ Me.raised = "AttributeError"
    /\ Me.i >= 2
    /\ Me.pre_counter > 0

\* the entries of a batch whose timestamp is no datetime
Failing(recs) == {k \in 1..Len(recs) : ~IsDatetime(recs[k][2])}

FirstFailing(recs) == CHOOSE k \in Failing(recs) : \A m \in Failing(recs) : k <= m

\* C11: when an entry of a batch fails, batch_record_hashes aborts at that first
\* failure and reports it to the caller: the loop never goes past the first
\* failing entry, no entry after it is given an id, counted or stored, and the
\* call ends with the exception and without a list of ids.
C11_BatchAbortsAtFirstFailure ==
    (Me.op = "batch_record_hashes" /\ Failing(Me.recs) # {}) =>
        LET i == FirstFailing(Me.recs)
        IN  /\ Me.i <= i
            /\ Len(Me.tx_ids) < i
            /\ transaction_counter <= Me.pre_counter + i
            /\ \A f \in DOMAIN records :
                   TxNumber(records[f].transaction_id) < Me.pre_counter + i
            /\ Me.pc = "done" =>
                   /\ Me.raised # ""
                   /\ Me.ret = None
                   /\ Me.raised = "AttributeError" =>
                          /\ Me.i = i
                          /\ Len(Me.tx_ids) = i - 1
                          /\ transaction_counter = Me.pre_counter + i

\* a batch on a fresh backend stopped at a failing entry that a good entry with
\* another fingerprint follows
C11_Witness ==
    /\ Stopped
    /\ Me.raised = "AttributeError"
    /\ Me.i < Len(Me.recs)
    /\ IsDatetime(Me.recs[Me.i + 1][2])
    /\ Me.recs[Me.i + 1][1] \notin DOMAIN records

----------------------------------------------------------------------------
(* Properties of the factory and the module-level functions *)

\* the lower-case spelling of each name in use, from a table
Canonical(name) ==
    CASE name \in {"mock", "MOCK", "Mock"} -> "mock"
      [] name \in {"ethereum", "Ethereum"} -> "ethereum"
      [] name \in {"loopring", "LOOPRING"} -> "loopring"
      [] name \in {"invalid_backend", "Invalid_Backend"} -> "invalid_backend"

ClassOf(name) ==
    CASE name = "mock" -> "MockBlockchain"
      [] name = "ethereum" -> "EthereumBlockchain"
      [] name = "loopring" -> "LoopringBlockchain"
      [] OTHER -> ""

\* C12: after record_to_blockchain(image_hash=h, ..., backend="mock"), or
\* batch_record_to_blockchain of a list containing h, has returned, a following
\* verify_from_blockchain(h, backend="mock") returns a record that is not None
\* and whose hash is h.
C12_VerifyAfterRecord ==
    (/\ last.op = "verify_from_blockchain"
     /\ last.args[2] = "mock"
     /\ last.args[1] \in submitted)
    => /\ last.raised = ""
       /\ last.ret # None
       /\ last.ret.hash = last.args[1]

\* the variable a call of the caller that keeps its backends acted on
Actor(c) == IF c.op = "get_blockchain_interface" THEN c.args[3] ELSE c.args[1]

\* what a backend answers to verify_hash and to get_stats
Answers(obj) ==
    [verify_hash |-> [f \in Hashes |-> InterfaceVerifyHash(obj, f).ret],
     get_stats |-> InterfaceGetStats(obj).ret]

\* C13: get_blockchain_interface performs no caching: every call with the name
\* "mock" yields a new backend whose transaction counter is 0, block counter is
\* 1000 and record map is empty, and neither a call of the factory nor a call on
\* one returned instance changes what another returned instance answers to
\* verify_hash or get_stats.
C13_FreshAndIsolated ==
    [][/\ (last'.op = "get_blockchain_interface" /\ last'.args[1] = "mock") =>
              LET b == heap'[interface'[last'.args[3]]]
              IN  /\ last'.raised = ""
                  /\ b = last'.ret
                  /\ b.class = "MockBlockchain"
                  /\ b.self.transaction_counter = 0
                  /\ b.self.block_counter = 1000
                  /\ DOMAIN b.self.records = {}
                  /\ \A f \in Hashes : InterfaceVerifyHash(b, f).ret = None
                  /\ InterfaceGetStats(b).ret.total_records = 0
                  /\ InterfaceGetStats(b).ret.total_transactions = 0
                  /\ InterfaceGetStats(b).ret.current_block = 1000
       /\ \A g \in Handles \ {Actor(last')} :
              interface[g] # "" =>
                  /\ interface'[g] = interface[g]
                  /\ \A h \in Handles \ {g} : interface'[h] # interface'[g]
                  /\ Answers(heap'[interface'[g]]) = Answers(heap[interface[g]])
      ]_vars

\* a used backend in one variable, and the factory just gave the other variable
\* a backend for "mock"
C13_Witness ==
    /\ last.op = "get_blockchain_interface"
    /\ last.args[1] = "mock"
    /\ last.args[3] = "other"
    /\ interface["blockchain"] # ""
    /\ heap[interface["blockchain"]].class = "MockBlockchain"
    /\ heap[interface["blockchain"]].self.transaction_counter = 2
    /\ Cardinality(DOMAIN heap[interface["blockchain"]].self.records) = 2

\* the names in use that are no variant of a known name
UnknownNames == {"invalid_backend", "Invalid_Backend"}

\* C14: get_blockchain_interface called with a name that is no variant of mock,
\* ethereum or loopring fails with the unknown-backend ValueError, whose message
\* names the value (in lower case, as the factory compares it) and lists the known
\* names; no backend is made, whatever keyword arguments came with the name.
C14_UnknownBackendFails ==
    (last.op = "get_blockchain_interface" /\ last.args[1] \in UnknownNames) =>
        /\ last.raised = "ValueError"
        /\ last.message
             = "Unknown backend: invalid_backend. Available: mock, ethereum, loopring"
        /\ last.ret = None
        /\ last.connects = 0
        /\ \A h \in Handles : interface[h] = ""

\* an unknown name written with capitals, passed with keyword arguments
C14_Witness ==
    /\ last.op = "get_blockchain_interface"
    /\ last.args[1] = "Invalid_Backend"
    /\ last.args[2] # <<>>
    /\ last.raised = "ValueError"

\* C15: constructing the Ethereum backend, directly or through the factory,
\* without a provider_url fails with the ValueError naming provider_url in every
\* environment, before any connection is attempted and before any other failure.
C15_MissingProviderUrlFirst ==
    (/\ last.op \in {"get_blockchain_interface", "EthereumBlockchain"}
     /\ last.args[1] \in {"ethereum", "Ethereum"}
     /\ last.args[2] = <<>>)
    => /\ last.raised = "ValueError"
       /\ last.message = "provider_url is required for Ethereum backend"
       /\ last.connects = 0

\* C16: get_blockchain_interface matches the name case-insensitively: a call
\* with an upper/lower-case variant of a name does what the call with the
\* lower-case name does with the same arguments in the same environment: the
\* same backend type for a known name, the same failure for an unknown one.
C16_CaseInsensitive ==
    last.op = "get_blockchain_interface" =>
        \E reachable \in BOOLEAN :
            LET m == GetBlockchainInterface(Canonical(last.args[1]), last.args[2],
                                            web3_installed, reachable)
            IN  /\ last.raised = m.raised
                /\ last.message = m.message
                /\ last.connects = m.connects
                /\ last.ret = Object(m)
                /\ last.raised = "" => last.ret.class = ClassOf(Canonical(last.args[1]))

\* a known name in capitals gave its backend
C16_Witness ==
    /\ last.op = "get_blockchain_interface"
    /\ last.args[1] = "LOOPRING"
    /\ last.raised = ""
    /\ last.ret.class = "LoopringBlockchain"

----------------------------------------------------------------------------
(* Properties of the ledger over its lifetime *)

\* C17: over any sequence of record_hash, batch_record_hashes, verify_hash and
\* get_stats calls by one caller the block counter never decreases and, once it
\* has advanced, never is at its base value again.
C17_BlockCounterMonotonic ==
    [][/\ block_counter' >= block_counter
       /\ block_counter > InitialBlock => block_counter' # InitialBlock
      ]_vars

\* the block counter advanced twice and calls of every kind followed
C17_Witness ==
    /\ block_counter = InitialBlock + 2
    /\ transaction_counter > 2 * BlockInterval
    /\ last.op = "get_stats"

\* a field that was left at its default None
IsNone(v) == ToString(v) = ToString(None)

\* C18: every record in the record map has both a transaction id and a block
\* number, in every state a call passes through, an interrupted or failed call
\* included.
C18_IdAndBlockTogether ==
    \A f \in DOMAIN records :
        /\ ~IsNone(records[f].transaction_id)
        /\ ~IsNone(records[f].block_number)
        /\ SubSeq(records[f].transaction_id, 1, 8) = "mock_tx_"
        /\ records[f].block_number >= InitialBlock

\* a batch stored the record of an entry and was interrupted before the call
\* that stored it returned
C18_Witness ==
    /\ Stopped
    /\ Me.raised = "KeyboardInterrupt"
    /\ Me.record # None
    /\ Me.args[1] \in DOMAIN records
    /\ records[Me.args[1]] = Me.record
    /\ Len(Me.tx_ids) < Me.i

\* C19 as stated: once a fingerprint has been accepted with geolocation omitted,
\* no later operation makes verify_hash return a record for it that has a
\* geolocation.
C19_GeolocationNeverAdded ==
    [][\A f \in Hashes :
           (VerifyHash(Self, f).ret # None /\ VerifyHash(Self, f).ret.geolocation = None)
           => DictGet(records', f).geolocation = None
      ]_vars

\* the entries of the call c that carry fingerprint f
EntriesWith(c, f) ==
    IF c.op = "record_hash" THEN IF c.args[1] = f THEN {c.args} ELSE {}
    ELSE IF c.op = "batch_record_hashes"
    THEN {c.args[k] : k \in {j \in 1..Len(c.args) : c.args[j][1] = f}}
    ELSE {}

\* the last entry of the batch c that carries fingerprint f
LastEntryWith(c, f) ==
    c.args[CHOOSE k \in 1..Len(c.args) :
               /\ c.args[k][1] = f
               /\ \A j \in (k + 1)..Len(c.args) : c.args[j][1] # f]

\* C19 as amended: the record stored for a fingerprint changes only when that
\* fingerprint is submitted again, and then it is replaced whole by the record
\* of the new submission, geolocation included; verify_hash, get_stats and
\* submissions of other fingerprints leave it as it is.
C19_ChangedOnlyByResubmission ==
    [][\A f \in DOMAIN records :
           /\ f \in DOMAIN records'
           /\ EntriesWith(last', f) = {} => records'[f] = records[f]
           /\ records'[f] # records[f] =>
                  LET e == IF last'.op = "record_hash" THEN last'.args
                           ELSE LastEntryWith(last', f)
                  IN  /\ records'[f].geolocation = e[4]
                      /\ records'[f].camera_id = e[3]
                      /\ records'[f].timestamp = IsoText(e[2])
                      /\ records'[f].transaction_id # records[f].transaction_id
      ]_vars

\* a stored fingerprint was submitted again, with a geolocation, and the record
\* verify_hash returns for it is the one of the second submission
C19_Witness ==
    /\ Returned("record_hash")
    /\ last.args[4] # None
    /\ last.pre_counter = 1
    /\ Len(issued) = 2
    /\ DOMAIN records = {last.args[1]}
    /\ VerifyHash(Self, last.args[1]).ret.geolocation = last.args[4]
    /\ VerifyHash(Self, last.args[1]).ret.transaction_id = issued[2]

\* C20: the ledger supports no deletion: a fingerprint verify_hash has returned a
\* record for keeps being found, whatever operation runs, and the number of
\* stored records never decreases.
C20_NoDeletion ==
    [][/\ \A f \in Hashes :
              VerifyHash(Self, f).ret # None =>
                  /\ f \in DOMAIN records'
                  /\ DictGet(records', f) # None
                  /\ DictGet(records', f).hash = f
       /\ Cardinality(DOMAIN records') >= Cardinality(DOMAIN records)
       /\ GetStats(Self).ret.total_records
            <= Cardinality(DOMAIN records')
      ]_vars

\* two fingerprints are stored, submissions and lookups went on past a block
\* confirmation, and a lookup still finds one
C20_Witness ==
    /\ Returned("verify_hash")
    /\ last.ret # None
    /\ Cardinality(DOMAIN records) = 2
    /\ transaction_counter > BlockInterval

----------------------------------------------------------------------------
(* Properties of the functions without state *)

\* the digest compute_image_hash returns for the data under the algorithm
DigestOf(image_data, algorithm) == ComputeImageHash(image_data, algorithm, T1).ret[1]

\* every character is one of 0-9, a-f
IsLowerHex(s) ==
    \A k \in 1..Len(s) : \E j \in 1..Len(HexDigits) : SubSeq(HexDigits, j, j) = SubSeq(s, k, k)

\* the call observed was passed an algorithm name of hashlib.algorithms_available
PassedSupported(pos) == last.args[pos] \in AlgorithmsAvailable

\* C23: for a supported algorithm compute_image_hash returns a digest that is the
\* same at every call on the same data, and verify_hash returns true when the
\* expected digest is that of the data and false when it is that of other data
C23_DeterministicAndInverse ==
    /\ (last.op = "compute_image_hash" /\ PassedSupported(2))
           => /\ last.raised = ""
              /\ \A now \in Clock :
                     \E again \in {ComputeImageHash(last.args[1], last.args[2], now)} :
                         again.raised = "" /\ again.ret[1] = last.ret[1]
    /\ (last.op = "verify_hash" /\ PassedSupported(2))
           => /\ last.raised = ""
              /\ \A other \in DataInputs :
                     last.args[3] = DigestOf(other, last.args[2])
                         => last.ret = (other = last.args[1])

\* C24: verify_hash of hash.py compares the digests as strings, character by
\* character: an expected digest differing from the computed one in letter case
\* only yields False
C24_CaseSensitive ==
    (last.op = "verify_hash" /\ last.raised = "")
        => /\ last.ret = (last.args[3] = DigestOf(last.args[1], last.args[2]))
           /\ (/\ last.args[3] # DigestOf(last.args[1], last.args[2])
               /\ Lower(last.args[3]) = Lower(DigestOf(last.args[1], last.args[2])))
                  => last.ret = FALSE

\* verify_hash was given the digest of its data in upper case and returned False
C24_Witness ==
    /\ last.op = "verify_hash"
    /\ last.raised = ""
    /\ last.args[3] = Upper(DigestOf(last.args[1], last.args[2]))
    /\ last.args[3] # DigestOf(last.args[1], last.args[2])
    /\ last.ret = FALSE

\* the call observed is one of the three that take an algorithm name, and the
\* name is not one of hashlib.algorithms_available
PassedUnsupported ==
    /\ last.op \in {"compute_image_hash", "compute_file_hash", "verify_hash"}
    /\ ~PassedSupported(2)

\* C25 as stated: an unsupported algorithm name makes each of the three functions
\* raise ValueError, with no byte read or fed to a hasher
C25_ValueErrorAlways ==
    PassedUnsupported
        => last.raised = "ValueError" /\ last.read = 0 /\ last.fed = 0

\* C25: with an unsupported algorithm name no function reads a byte, feeds a
\* hasher or returns a value; each raises ValueError naming the algorithm, except
\* that compute_file_hash on a path that does not exist raises FileNotFoundError
C25_NoByteRead ==
    PassedUnsupported
        => /\ last.read = 0
           /\ last.fed = 0
           /\ IsNone(last.ret)
           /\ IF last.op = "compute_file_hash" /\ ~last.args[1].exists
              THEN last.raised = "FileNotFoundError"
              ELSE /\ last.raised = "ValueError"
                   /\ last.message = "Unsupported algorithm: " \o last.args[2]

\* compute_file_hash was passed an existing file that is not empty, and an
\* unsupported algorithm name, and raised ValueError
C25_Witness ==
    /\ last.op = "compute_file_hash"
    /\ last.args[1].exists
    /\ Len(last.args[1].content) = MaxData
    /\ last.args[2] = "md4"
    /\ last.raised = "ValueError"
    /\ last.read = 0

\* C26: for every algorithm name of hashlib.algorithms_available
\* compute_image_hash returns a lower-case hexadecimal digest of the length the
\* algorithm fixes, and it raises nothing but the ValueError of an unsupported name
C26_DigestForEverySupportedName ==
    last.op = "compute_image_hash"
        => /\ last.raised \in {"", "ValueError"}
           /\ PassedSupported(2)
                  => /\ last.raised = ""
                     /\ IsLowerHex(last.ret[1])
                     /\ Len(last.ret[1]) = 2 * DigestSize(last.args[2])
                     /\ Len(last.ret[1]) > 0

\* C28: from_dict of the dict to_dict returns is a record equal to the one
\* serialized in every field, and the dict holds each field's value under the
\* field's name and nothing else
C28_RoundTrip ==
    last.op = "to_dict"
        => /\ Len(last.ret) = Len(FieldNames)
           /\ Keys(last.ret) = {FieldNames[k] : k \in 1..Len(FieldNames)}
           /\ \A k \in 1..Len(FieldNames) :
                  ToString(Item(last.ret, FieldNames[k])) = ToString(last.args[1][FieldNames[k]])
           /\ FromDict(last.ret).raised = ""
           /\ \A k \in 1..Len(FieldNames) :
                  ToString(FromDict(last.ret).ret[FieldNames[k]])
                      = ToString(last.args[1][FieldNames[k]])

\* a record with a transaction id and a network but neither geolocation nor block
\* number was serialized and read back
C28_Witness ==
    /\ last.op = "to_dict"
    /\ IsNone(last.args[1].geolocation)
    /\ IsNone(last.args[1].block_number)
    /\ ~IsNone(last.args[1].transaction_id)
    /\ ~IsNone(last.args[1].network)
    /\ FromDict(last.ret).raised = ""
    /\ IsNone(FromDict(last.ret).ret.geolocation)
    /\ ToString(FromDict(last.ret).ret.transaction_id) = ToString(TxId(1))

\* C30: compute_file_hash on an existing file has the outcome of
\* compute_image_hash on the file's whole contents, whatever the chunk size
C30_FileHashIsImageHash ==
    (last.op = "compute_file_hash" /\ last.args[1].exists)
        => \E whole \in {ComputeImageHash(last.args[1].content, last.args[2], T1)} :
               /\ last.raised = whole.raised
               /\ last.raised = "" => last.ret[1] = whole.ret[1]

----------------------------------------------------------------------------
(* Properties of the reference backend's submissions and statistics *)

\* the fingerprints a caller may pass: those in use, the empty string, and every
\* one already stored
AnyFingerprint == Hashes \cup {""} \cup DOMAIN records

\* C22: in every reachable state of a MockBlockchain, record_hash called with any
\* fingerprint (the empty string or one already stored included), a datetime, any
\* submitter id and a geolocation or none returns the next transaction id and
\* raises nothing; so did every record_hash call made.
C22_RecordHashNeverFails ==
    /\ \A image_hash \in AnyFingerprint, timestamp \in Clock,
          camera_id \in {"", "camera_001"}, geolocation \in {None, Portland} :
           \E r \in {RecordHash(Self, image_hash, timestamp, camera_id, geolocation)} :
               /\ r.raised = ""
               /\ r.ret = TxId(transaction_counter + 1)
               /\ image_hash \in DOMAIN r.self.records
    /\ last.op = "record_hash"
           => last.raised = "" /\ last.ret = TxId(last.pre_counter + 1)

\* record_hash was called with a fingerprint that was already stored, under a new
\* submitter, and returned an id
C22_Witness ==
    /\ last.op = "record_hash"
    /\ last.raised = ""
    /\ last.pre_counter >= 1
    /\ Len(issued) > Cardinality(DOMAIN records)
    /\ records[last.args[1]].transaction_id = last.ret
    /\ last.ret = issued[Len(issued)]
    /\ \E k \in 1..(Len(issued) - 1) : issued[k] # last.ret

\* the transaction ids held by the stored records
StoredIds == {records[f].transaction_id : f \in DOMAIN records}

\* C27: get_stats reports the number of accepted submissions as
\* total_transactions, the number of distinct fingerprints submitted as
\* total_records, the block counter as current_block and the network tag as
\* network; total_records never exceeds total_transactions, and equals it exactly
\* when no submission's record has been replaced by a resubmission.
C27_StatsCount ==
    \E stats \in {GetStats(Self).ret} :
        /\ GetStats(Self).raised = ""
        /\ stats.total_transactions = Len(issued)
        /\ stats.total_records = Cardinality(submitted)
        /\ stats.current_block = block_counter
        /\ stats.network = network
        /\ stats.total_records <= stats.total_transactions
        /\ (stats.total_records = stats.total_transactions)
               <=> (StoredIds = {issued[k] : k \in 1..Len(issued)})
        /\ last.op = "get_stats" => last.ret = stats

\* get_stats was called after a fingerprint had been resubmitted and reported
\* fewer records than transactions
C27_Witness ==
    /\ last.op = "get_stats"
    /\ last.ret.total_transactions = 3
    /\ last.ret.total_records = 2
    /\ Cardinality(submitted) = 2
    /\ Len(issued) = 3

----------------------------------------------------------------------------
(* Properties of the Loopring backend *)

\* variable h refers to a LoopringBlockchain
IsLoopring(h) == interface[h] # "" /\ At(h).class = "LoopringBlockchain"

\* C29: LoopringBlockchain() with no argument constructs a backend, and so does the
\* factory for the name loopring; record_hash, verify_hash and batch_record_hashes
\* on a Loopring backend raise NotImplementedError and return nothing, the batch
\* on an empty list too.
C29_LoopringNotImplemented ==
    /\ NewLoopringBlockchain(<<>>).raised = ""
    /\ NewLoopringBlockchain(<<>>).class = "LoopringBlockchain"
    /\ (last.op = "get_blockchain_interface" /\ Lower(last.args[1]) = "loopring")
           => last.raised = "" /\ IsLoopring(last.args[3])
    /\ (/\ last.op \in {"record_hash", "verify_hash", "batch_record_hashes"}
        /\ IsLoopring(last.args[1]))
           => last.raised = "NotImplementedError" /\ IsNone(last.ret)
    /\ \A h \in Handles :
           IsLoopring(h)
               => /\ \A recs \in Batches :
                         InterfaceBatchRecordHashes(At(h), recs).raised
                             = "NotImplementedError"
                  /\ \A sub \in BatchTuples :
                         InterfaceRecordHash(At(h), sub).raised = "NotImplementedError"
                  /\ \A image_hash \in Hashes :
                         InterfaceVerifyHash(At(h), image_hash).raised
                             = "NotImplementedError"

\* batch_record_hashes([]) was called on a Loopring backend got from the factory
\* and raised NotImplementedError
C29_Witness ==
    /\ last.op = "batch_record_hashes"
    /\ IsLoopring(last.args[1])
    /\ last.args[2] = <<>>
    /\ last.raised = "NotImplementedError"

----------------------------------------------------------------------------
(* Properties of a reader concurrent with a writer *)

Writer == thread["t1"]
Reader == thread["t2"]

\* the number of submissions made before the two threads started
Earlier == IF Writer.pc = "done" THEN Len(issued) - 1 ELSE Len(issued)

\* the record the map held for the fingerprint before the two threads started
PreviousRecord ==
    BirthmarkRecord("abc123", IsoFormat(T1), "camera_001", None, TxId(Earlier),
                    InitialBlock, network)

\* the fingerprint had a record before the two threads started
StoredEarlier(image_hash) == Earlier > 0 /\ image_hash = "abc123"

\* the writer has stored its record
HasPut == Writer.pc \in {"rh_check", "rh_blk_load", "rh_blk_store", "rh_return", "done"}

\* every field the backend sets is set
Complete(record, image_hash) ==
    /\ record.hash = image_hash
    /\ record.timestamp \in {IsoFormat(T1), IsoFormat(T2)}
    /\ record.camera_id \in {"camera_001", "camera_002"}
    /\ ~IsNone(record.transaction_id)
    /\ ~IsNone(record.block_number)
    /\ ~IsNone(record.network)

\* C21: a verify_hash that runs while record_hash for the same fingerprint is in
\* progress returns None only if the fingerprint had no record, and otherwise a
\* record with every field set: the one stored before, or the writer's new record
\* once the writer has stored it.
C21_NoPartialRecord ==
    (Reader.pc = "done" /\ Reader.op = "verify_hash")
        => IF IsNone(Reader.ret)
           THEN ~StoredEarlier(Reader.args[1])
           ELSE /\ Complete(Reader.ret, Reader.args[1])
                /\ \/ StoredEarlier(Reader.args[1]) /\ Reader.ret = PreviousRecord
                   \/ /\ HasPut
                      /\ Writer.args[1] = Reader.args[1]
                      /\ Reader.ret = Writer.record
                      /\ Reader.ret.transaction_id = Writer.tx_id

\* verify_hash returned the writer's new record for a fingerprint that had a
\* record before, while the writer was still inside record_hash
C21_Witness ==
    /\ Reader.pc = "done"
    /\ Reader.op = "verify_hash"
    /\ Writer.pc \in {"rh_check", "rh_blk_load", "rh_blk_store", "rh_return"}
    /\ Writer.args[1] = Reader.args[1]
    /\ StoredEarlier(Reader.args[1])
    /\ ~IsNone(Reader.ret)
    /\ Reader.ret = Writer.record
    /\ Reader.ret # PreviousRecord

----------------------------------------------------------------------------
(* Properties of block numbers, keys and calls that change nothing *)

\* the block the k-th accepted submission is recorded in
BlockOf(k) == InitialBlock + ((k - 1) \div BlockInterval)

\* C31: on a backend used by one caller, every stored record carries block number
\* 1000 + floor((k-1)/10), k being the number in its transaction id; the record of
\* a submission that advances the block counter carries the block before the
\* advancement; no stored block number exceeds the block counter; and no block
\* number is shared by more than 10 of the ids issued.
C31_BlockOfKthSubmission ==
    /\ \A f \in DOMAIN records :
           /\ TxNumber(records[f].transaction_id) \in 1..transaction_counter
           /\ records[f].block_number = BlockOf(TxNumber(records[f].transaction_id))
           /\ records[f].block_number <= block_counter
    /\ Returned("record_hash")
           => /\ records[last.args[1]].block_number = last.pre_block
              /\ records[last.args[1]].block_number = BlockOf(Len(issued))
              /\ (Len(issued) % BlockInterval = 0) => block_counter = last.pre_block + 1
    /\ \A b \in InitialBlock..block_counter :
           Cardinality({k \in 1..Len(issued) :
                           IsTxIdOf(issued[k], k) /\ BlockOf(k) = b}) <= BlockInterval
    /\ \A k \in 1..Len(issued) : IsTxIdOf(issued[k], k)

\* the twentieth submission advanced the block counter to 1002 and is recorded in
\* block 1001
C31_Witness ==
    /\ Returned("record_hash")
    /\ Len(issued) = 2 * BlockInterval
    /\ block_counter = InitialBlock + 2
    /\ records[last.args[1]].block_number = InitialBlock + 1
    /\ records[last.args[1]].transaction_id = TxId(2 * BlockInterval)

\* C32: every entry of the record map is stored under its record's own hash, and
\* every stored record's network is the network tag the backend was constructed
\* with.
C32_KeyIsHashAndNetworkIsTag ==
    /\ network \in {c[1] : c \in Constructions}
    /\ \A f \in DOMAIN records :
           /\ records[f].hash = f
           /\ records[f].network = network
    /\ Returned("record_hash")
           => /\ last.args[1] \in DOMAIN records
              /\ records[last.args[1]].hash = last.args[1]

\* a backend constructed with network "test-network" holds two records
C32_Witness ==
    /\ network = "test-network"
    /\ DOMAIN records = {"abc123", "zzz999"}
    /\ records["zzz999"].network = "test-network"
    /\ Returned("record_hash")

\* the two objects hold the same record map, counters and network tag
SameObject(a, b) ==
    /\ a.records = b.records
    /\ a.transaction_counter = b.transaction_counter
    /\ a.block_counter = b.block_counter
    /\ a.network = b.network

\* C33: verify_hash of any fingerprint, stored or not, and get_stats leave the
\* record map, the transaction counter and the block counter as they were, so a
\* submission made after any of them gets the id and block number it would have
\* got without them.
C33_LookupsChangeNothing ==
    /\ \A f \in Hashes :
           /\ SameObject(VerifyHash(Self, f).self, Self)
           /\ \A sub \in Submissions :
                  \E direct \in {RecordHash(Self, sub[1], sub[2], sub[3], sub[4])},
                     later \in {RecordHash(VerifyHash(VerifyHash(Self, f).self, f).self,
                                           sub[1], sub[2], sub[3], sub[4])} :
                      /\ later.ret = direct.ret
                      /\ SameObject(later.self, direct.self)
    /\ SameObject(GetStats(Self).self, Self)
    /\ last.op \in {"verify_hash", "get_stats"}
           => /\ transaction_counter = last.pre_counter
              /\ block_counter = last.pre_block
              /\ transaction_counter = Len(issued)
              /\ DOMAIN records = submitted

\* a fingerprint never submitted was looked up on a backend whose next submission
\* advances the block counter
C33_Witness ==
    /\ last.op = "verify_hash"
    /\ last.args[1] = "nonexistent_hash"
    /\ last.pre_counter = BlockInterval - 1
    /\ transaction_counter = BlockInterval - 1
    /\ block_counter = InitialBlock

\* C37: batch_record_hashes([]) returns an empty list and leaves the record map,
\* the transaction counter and the block counter unchanged.
C37_EmptyBatch ==
    /\ \E r \in {BatchRecordHashes(Self, <<>>)} :
           /\ r.raised = ""
           /\ r.ret = <<>>
           /\ SameObject(r.self, Self)
    /\ (last.op = "batch_record_hashes" /\ Len(last.args) = 0)
           => /\ last.raised = ""
              /\ Len(last.ret) = 0
              /\ transaction_counter = last.pre_counter
              /\ block_counter = last.pre_block
              /\ transaction_counter = Len(issued)
              /\ DOMAIN records = submitted

\* an empty batch was submitted to a backend that holds records and is one
\* submission short of a block advancement
C37_Witness ==
    /\ last.op = "batch_record_hashes"
    /\ Len(last.args) = 0
    /\ last.pre_counter = BlockInterval - 1
    /\ DOMAIN records # {}
    /\ block_counter = InitialBlock

----------------------------------------------------------------------------
(* Properties of the ids the convenience functions hand out *)

\* the record the backend built for one record_to_blockchain call holds for the
\* fingerprint when the call returns
ThrowawayRecord(sub, kw) ==
    InterfaceRecordHash(GetBlockchainInterface("mock", kw, web3_installed, TRUE),
                        sub).self.records[sub[1]]

\* C35: every record_to_blockchain call with the mock backend returns the id of
\* counter value 1, mock_tx_00000001, and its record carries block number 1000,
\* whatever calls were made before; so do the calls capture_authenticated makes
\* when it records, and the ids handed out are all the same.
C35_AlwaysFirstId ==
    /\ \A k \in 1..Len(issued) : issued[k] = TxId(1)
    /\ \A j, k \in 1..Len(issued) : issued[j] = issued[k]
    /\ \A sub \in BatchTuples, kw \in ConvenienceKwargs :
           /\ RecordToBlockchain(sub, "mock", kw, web3_installed, TRUE).ret = TxId(1)
           /\ ThrowawayRecord(sub, kw).block_number = InitialBlock
           /\ ThrowawayRecord(sub, kw).transaction_id = TxId(1)
    /\ (last.op = "record_to_blockchain" /\ last.args[2] = "mock")
           => last.raised = "" /\ last.ret = TxId(1)
    /\ (last.op = "capture_authenticated" /\ last.raised = "" /\ last.args[1])
           => last.ret.transaction_id = TxId(1)

\* two different fingerprints were recorded by two record_to_blockchain calls and
\* both calls returned the same id
C35_Witness ==
    /\ last.op = "record_to_blockchain"
    /\ last.args[2] = "mock"
    /\ Len(issued) = 2
    /\ issued[1] = issued[2]
    /\ Cardinality(submitted) = 2

----------------------------------------------------------------------------
(* Properties of a batch that repeats a fingerprint *)

\* the batch returned holds some fingerprint at two positions
RepeatsFingerprint ==
    /\ Returned("batch_record_hashes")
    /\ \E i, j \in 1..Len(last.args) : i < j /\ last.args[i][1] = last.args[j][1]

\* C36: a batch of N entries that holds a fingerprint at positions i < j still
\* returns N pairwise distinct ids and advances the transaction counter by N; the
\* record map holds one entry for the fingerprint, verify_hash returns the record
\* of the last position holding it, and the id returned for an earlier position is
\* the transaction id of no stored record.
C36_RepeatedFingerprintInBatch ==
    RepeatsFingerprint =>
        /\ Len(last.ret) = Len(last.args)
        /\ \A i, j \in 1..Len(last.ret) : i # j => last.ret[i] # last.ret[j]
        /\ transaction_counter = last.pre_counter + Len(last.args)
        /\ Cardinality(DOMAIN records) = Cardinality(submitted)
        /\ Cardinality({last.args[i][1] : i \in 1..Len(last.args)}) < Len(last.args)
        /\ \A i \in 1..Len(last.args) :
               IF LaterSame(last.args, i) = {}
               THEN /\ VerifyHash(Self, last.args[i][1]).ret.transaction_id = last.ret[i]
                    /\ VerifyHash(Self, last.args[i][1]).ret.camera_id = last.args[i][3]
               ELSE /\ last.ret[i] \notin StoredIds
                    /\ VerifyHash(Self, last.args[i][1]).ret.transaction_id
                           \in {last.ret[j] : j \in LaterSame(last.args, i)}

\* a batch holding the same fingerprint twice was submitted to a backend that
\* already held a record
C36_Witness ==
    /\ RepeatsFingerprint
    /\ Len(last.args) = MaxBatch
    /\ last.args[1][1] = last.args[MaxBatch][1]
    /\ last.pre_counter >= 1
    /\ records[last.args[1][1]].transaction_id = last.ret[MaxBatch]
    /\ last.ret[1] \notin StoredIds

----------------------------------------------------------------------------
(* Properties of a submission that fails *)

\* the entries of the batch that were accepted before it stopped
Accepted == Len(Me.tx_ids)

\* C34: a record_hash call that raises because its timestamp has no isoformat()
\* leaves the transaction counter, the block counter and the record map as they
\* were: the counter counts the accepted submissions only, the next submission
\* gets the id following the last accepted one, and the block counter has
\* advanced once for every ten transactions counted.
C34_FailedCallChangesNothing ==
    (Stopped /\ Me.raised = "AttributeError")
        => /\ transaction_counter = Me.pre_counter + Accepted
           /\ RecordHash(Self, "abc123", T1, "camera_001", None).ret
                  = TxId(Me.pre_counter + Accepted + 1)
           /\ block_counter = InitialBlock + (transaction_counter \div BlockInterval)

----------------------------------------------------------------------------
(* Properties of the simulated latency *)

\* the backend that differs from self in simulate_delay only
OtherDelay(self) == [self EXCEPT !.simulate_delay = ~@]

\* two calls raised or returned the same and left the same record map, counters
\* and network tag; each left its object's simulate_delay as it was
SameOutcome(a, b) ==
    /\ a.raised = b.raised
    /\ a.ret = b.ret
    /\ SameObject(a.self, b.self)
    /\ a.self.simulate_delay = ~b.self.simulate_delay

\* C38: from every reachable state, each operation on the backend and on the
\* backend that differs in simulate_delay only returns the same value and leaves
\* the same record map, transaction counter and block counter; only the time
\* slept differs.  Two such backends given the same sequence of operations so
\* stay equal but for simulate_delay, step by step.
C38_DelayChangesTimingOnly ==
    /\ \A sub \in Submissions :
           SameOutcome(RecordHash(Self, sub[1], sub[2], sub[3], sub[4]),
                       RecordHash(OtherDelay(Self), sub[1], sub[2], sub[3], sub[4]))
    /\ \A f \in Hashes : SameOutcome(VerifyHash(Self, f), VerifyHash(OtherDelay(Self), f))
    /\ \A recs \in Batches :
           SameOutcome(BatchRecordHashes(Self, recs),
                       BatchRecordHashes(OtherDelay(Self), recs))
    /\ SameOutcome(GetStats(Self), GetStats(OtherDelay(Self)))
    /\ \A f \in Hashes :
           (VerifyHash(Self, f).slept = VerifyDelayMs) <=> simulate_delay
    /\ last.op = "verify_hash"
           => /\ last.slept = (IF simulate_delay THEN VerifyDelayMs ELSE 0)
              /\ last.ret = VerifyHash(OtherDelay(Self), last.args[1]).ret

\* a lookup on a delaying backend found a record after sleeping; the backend
\* without the delay finds the same record without sleeping
C38_Witness ==
    /\ last.op = "verify_hash"
    /\ simulate_delay
    /\ last.slept = VerifyDelayMs
    /\ last.args[1] \in DOMAIN records
    /\ last.ret = records[last.args[1]]
    /\ VerifyHash(OtherDelay(Self), last.args[1]).slept = 0
    /\ VerifyHash(OtherDelay(Self), last.args[1]).ret = last.ret

----------------------------------------------------------------------------
(* Properties of the chunk loop *)

\* the thread in compute_file_hash, its file's contents and its chunk size
Hashing == thread["t1"]
Content == Hashing.args[1].content
ChunkSize == Hashing.args[3]

\* the number of chunks of the given size a file of n bytes is read in
Chunks(n, size) == (n + size - 1) \div size

\* the call passed its checks and was given a positive chunk size
InLoopCase ==
    /\ Hashing.op = "compute_file_hash"
    /\ Hashing.args[1].exists
    /\ Hashing.args[2] \in AlgorithmsAvailable
    /\ ChunkSize > 0

\* C39: for every file and every positive chunk_size the chunk loop ends: while
\* it runs the next read is always possible, the reads made number the chunks
\* consumed, which are fewer than all chunks plus one, and the bytes fed are the
\* file's first bytes in order; it is left after exactly one read per chunk plus
\* one empty read with the whole file fed once, and then the call ends at the
\* return statement: with the digest of the contents, or with the TypeError of
\* hexdigest() for a SHAKE algorithm.
C39_ChunkLoopTerminates ==
    InLoopCase =>
        /\ Hashing.pc = "fh_read"
               => /\ ENABLED ReadChunk("t1")
                  /\ Hashing.i = Chunks(Hashing.tmp, ChunkSize)
                  /\ Hashing.i <= Chunks(Len(Content), ChunkSize)
                  /\ Hashing.tmp <= Len(Content)
                  /\ Hashing.recs = SubSeq(Content, 1, Hashing.tmp)
        /\ Hashing.pc \in {"fh_digest", "done"}
               => /\ Hashing.i = Chunks(Len(Content), ChunkSize) + 1
                  /\ Hashing.tmp = Len(Content)
                  /\ Hashing.recs = Content
        /\ Hashing.pc = "fh_digest" => ENABLED ReturnDigest("t1")
        /\ Hashing.pc = "done"
               => \E whole \in {ComputeFileHash(Hashing.args[1], Hashing.args[2],
                                                ChunkSize, T1)} :
                      /\ Hashing.raised = whole.raised
                      /\ (DigestSize(Hashing.args[2]) > 0)
                             => /\ Hashing.raised = ""
                                /\ Hashing.ret[1] = whole.ret[1]
        /\ Hashing.pc \in {"fh_read", "fh_digest", "done"}

\* a file of the greatest length was hashed one byte per read and the call
\* returned after one read more than the file has bytes
C39_Witness ==
    /\ InLoopCase
    /\ Hashing.pc = "done"
    /\ Hashing.raised = ""
    /\ ChunkSize = 1
    /\ Len(Content) = MaxData
    /\ Hashing.i = MaxData + 1
    /\ Hashing.recs = Content

====
